---- MODULE Spec2Model ----
(***************************************************************************)
(* A model of the request pipeline of telegram-joiner:                     *)
(*   RequestQueue        (src/src/index.js, class RequestQueue)            *)
(*   the Application's queue wiring (src/unnamed/part_003)                 *)
(*   BotRequestHandler.handleRequest (src/src/lib/BotRequestHandler.js)    *)
(*   BotInteractionHandler (src/src/lib/BotInteractionHandler.js)          *)
(* Requests are numbered 1..MaxReq in the order they reach addRequest.     *)
(* Node's event loop is modelled by one action per callback: a           *)
(* synchronous call chain is one step, the continuation of an await is a   *)
(* step of its own.                                                        *)
(***************************************************************************)
EXTENDS Integers, Sequences, FiniteSets, TLC

\* ---------------------------------------------------------------- bounds
MaxReq == 4
maxSize == 2
RequestTimeout == 1
MaxCoordReq == 2
MaxLinks == 2
MaxButtons == 1
MaxJoinButtons == 3
MaxMsgs == 2
MaxChannels == 2
MaxForwards == 2
MaxTargets == 2
MaxPhases == 4
MaxLatency == 1
MaxAppReq == 2
MaxAppLinks == 2
MaxItems == 2
MaxEntities == 1
MaxTextUrls == 2

\* ------------------------------------------- durations of the code, seconds
responseTimeout == 30
mediaTimeout == 10
checkInterval == 1
joinDelay == 3
settleDelay == 5
popupDelay == 5

\* ------------------------------------ durations of the code, milliseconds
maxAge == 600000
defaultTimeout == 300000

\* ------------------------------------------------ a limit of the platform
parameterLimit == 64
sweepInterval == 60000

Req == 1..MaxReq

VARIABLES
    nextId,             \* number of requests created so far
    queue,              \* RequestQueue.queue
    processing,         \* RequestQueue.processing (the busy flag)
    status,             \* request.status
    acceptLog,          \* requests in the order addRequest returned true
    rejected,           \* requests for which queueFull was emitted
    startedLog,         \* requests in the order requestStarted was emitted
    completedCount,     \* number of requestCompleted emissions per request
    failedCount,        \* number of requestFailed emissions per request
    failError,          \* error.message carried by requestFailed
    wait,               \* state of the promise awaited in processNext
    rejectReason,       \* the error the promise was rejected with
    timerArmed,         \* deadline timer of processNext still pending
    elapsed,            \* time units since the deadline timer was set
    completeListeners,  \* requests whose onComplete is registered
    failedListeners,    \* requests whose onFailed is registered
    immediates,         \* pending setImmediate(() => this.processNext())
    handler,            \* the Application's requestStarted listener, per request
    \* BotRequestHandler.handleRequest, one activation per started request
    nLinks,             \* request.botLinks.length
    hpc,                \* where the activation stands
    linkIdx,            \* the loop variable i
    rateLimitHit,       \* the local rateLimitHit
    outcomes,           \* the responses interactWithBot has returned, in order
    outcomesAtSettle,   \* Len(outcomes) when the queue settled the request
    errorLines,         \* links for which sendErrorMessage was called, in order
    rateLimitedJoin,    \* links during whose invocation a join was rate-limited
    eng,                \* the interactWithBot invocation in flight
    \* one run of joinChannelsFromButtons, attempt by attempt
    jpc,                \* idle, joining or returned
    jTotal,             \* channelButtons.length
    jLoop,              \* successCount, floodWaitDetected, maxFloodWait
    jLog,               \* the platform's answers to the attempts issued so far
    jResult,            \* the value returned
    \* one invocation of interactWithBot against the clock
    epc,                \* where interactWithBot stands
    eOutcome,           \* the outcome it returned
    triggerSent,        \* sendMessage('/start ...') has been issued
    delivered,          \* messages of the responder delivered so far
    mAttached,          \* the media handler is registered on the client
    mInterval,          \* the checkTimeout interval is active
    sinceLast,          \* Date.now() - lastMessageTime
    pollDue,            \* a checkTimeout callback is due
    mediaCount,         \* mediaMessages.length
    retryAttempted,     \* the listener's retryAttempted
    mResolved,          \* the media collection promise is resolved
    mResult,            \* the mediaCount it was resolved with
    rAttached,          \* the handler of waitForResponseMessage is registered
    rTimer,             \* its 30 s timer is armed
    rElapsed,           \* seconds since that timer was set
    rResult,            \* what waitForResponseMessage resolved with
    mLoop,              \* the join loop of the gating pass
    mSleep,             \* seconds left of the sleep interactWithBot awaits
    retryPc,            \* where the listener's join + confirm pass stands
    retryLoop,          \* the join loop of that pass
    retrySleep,         \* seconds left of the sleep that pass awaits
    retryMsg,           \* the message that started that pass
    clicks,             \* confirm clicks issued, per message id
    lastItemAge,        \* seconds since the last media item was collected
    finalGap,           \* lastItemAge when the collection was finalized
    keyboards,          \* messages with an inline keyboard delivered so far
    \* one activation of handleRequest and its per-item forwards
    fpc,                \* where handleRequest stands
    fLinks,             \* request.botLinks.length
    fIdx,               \* the loop variable i
    fRateLimitHit,      \* the local rateLimitHit
    fHandlerOn,         \* mediaReceivedHandler is registered
    fListeners,         \* targets whose media listener is still attached
    fStarted,           \* pendingMediaForwards.length
    fFinished,          \* forwards whose promise has settled
    fAwaited,           \* forwards handed to Promise.all
    fSignal,            \* what the Application signalled to the queue
    \* the status message of one activation of handleRequest
    sPc,                \* where handleRequest stands
    statusMessageId,    \* this.statusMessageId, 0 for null
    sCreated,           \* messages sendStatusUpdate has created in the chat
    sSends,             \* sendStatusUpdate calls in flight started by listeners
    sAwaited,           \* what the updateStatus that handleRequest awaits is doing
    sEdits,             \* editMessage calls issued
    sCalls,             \* updateStatus calls made so far
    \* one request with one target, handleRequest and interactWithBot together
    xPc,                \* where handleRequest stands
    phases,             \* the texts handed to the status message, in order
    forwarded,          \* forwardMediaToBotAccount calls (pendingMediaForwards.length)
    quiet,              \* seconds since the responder's last message or the first confirm
    \* the Application's listeners: tracking, relaying and cleaning up
    aPc,                \* where each request stands
    aLinks,             \* request.botLinks.length; link i names responder i
    aIdx,               \* the loop variable of the listener or of handleRequest
    activeRequests,     \* RequestTracker.activeRequests: responder -> requester, 0 for none
    entryAge,           \* Date.now() - timestamp of each entry, frozen when it is removed
    sinceSweep,         \* milliseconds since the cleanup interval last fired
    registered,         \* <<request, link>> for which addRequest was called
    unresolved,         \* <<request, link>> whose responder the listener could not resolve
    invoked,            \* <<request, link>> for which interactWithBot was called
    aQueue,             \* the requests queued, in order
    aBusy,              \* the request being processed, 0 for none
    items,              \* the media items forwarded to the relay identity
    mediaMessageTracker,\* chat -> ids of the messages sent to it and not yet cleaned up
    deletion,           \* chat -> none, armed or fired: the 20 s deletion timer
    \* TelegramBot: one inbound message and the deep link made from it
    msg,                \* the message: URLs of its entities, URLs in its text, chat type
    lPc,                \* idle, answered (deep link sent) or done
    botLinks,           \* what extractBotLinks returned
    startParam,         \* what encodeLinksToParameter returned
    notice,             \* what the group chat was sent
    lRequest,           \* the request emitted with requestReceived
    \* interactWithBot: where the media items go
    botChatId,          \* the argument botChatId, 0 for null
    originalSenderId,   \* the argument originalSenderId, 0 for null
    mediaReceived,      \* mediaReceived events emitted
    directForwards,     \* forwardMessageToUser calls made
    callbackAnswer      \* what the platform answered to interactWithBot's first confirm click

qvars == <<nextId, queue, processing, status, acceptLog, rejected, startedLog,
           completedCount, failedCount, failError, wait, rejectReason,
           timerArmed, elapsed, completeListeners, failedListeners,
           immediates, handler>>

cvars == <<nLinks, hpc, linkIdx, rateLimitHit, outcomes, outcomesAtSettle, errorLines,
           rateLimitedJoin, eng>>

jvars == <<jpc, jTotal, jLoop, jLog, jResult>>

evars == <<epc, eOutcome, triggerSent, delivered, mAttached, mInterval, sinceLast,
           pollDue, mediaCount, retryAttempted, mResolved, mResult, rAttached,
           rTimer, rElapsed, rResult, mLoop, mSleep, retryPc, retryLoop,
           retrySleep, retryMsg, clicks, lastItemAge, finalGap,
           keyboards>>

fvars == <<fpc, fLinks, fIdx, fRateLimitHit, fHandlerOn, fListeners, fStarted,
           fFinished, fAwaited, fSignal>>

svars == <<sPc, statusMessageId, sCreated, sSends, sAwaited, sEdits, sCalls>>

\* the components added after the request pipeline
xvars == <<xPc, phases, forwarded, quiet>>

avars == <<aPc, aLinks, aIdx, activeRequests, entryAge, sinceSweep, registered, unresolved, invoked,
           aQueue, aBusy, items, mediaMessageTracker, deletion>>

lvars == <<msg, lPc, botLinks, startParam, notice, lRequest>>

rvars == <<botChatId, originalSenderId, mediaReceived, directForwards>>

ovars == <<svars, xvars, avars, lvars, rvars, callbackAnswer>>

vars == <<qvars, cvars, jvars, evars, fvars, ovars>>

\* ------------------------------------------------------------ RequestQueue

QueueFullOffByOne(q) == Len(q) > maxSize

QueueNeverFull(q) == FALSE

\* addRequest: if (this.queue.length >= this.maxSize)
QueueFull(q) == Len(q) >= maxSize

\* addRequest: if (!this.processing) this.processNext();
StartsProcessing(busy) == ~busy

ProcessNextIgnoresBusy(busy, q) == Len(q) = 0

\* processNext: if (this.processing || this.queue.length === 0) return;
ProcessNextReturns(busy, q) == busy \/ Len(q) = 0

Pop(q) == [request |-> q[Len(q)], rest |-> SubSeq(q, 1, Len(q) - 1)]

\* processNext: const request = this.queue.shift();
Shift(q) == [request |-> Head(q), rest |-> Tail(q)]

DeadlineTooLate(r) == RequestTimeout + 1

\* processNext: setTimeout(..., request.timeout || 300000)
Deadline(r) == RequestTimeout

NeverSchedulesNext(q) == FALSE

\* finally: if (this.queue.length > 0) setImmediate(() => this.processNext());
SchedulesNext(q) == Len(q) > 0

\* The synchronous part of processNext (up to its await), called with the
\* queue contents q and the statuses st its caller has produced so far.
ProcessNext(q, st) ==
    IF ProcessNextReturns(processing, q)
    THEN /\ queue' = q
         /\ status' = st
         /\ UNCHANGED <<processing, startedLog, wait, timerArmed, elapsed,
                        completeListeners, failedListeners, handler>>
    ELSE LET s == Shift(q)
             request == s.request
         IN  /\ processing' = TRUE
             /\ queue' = s.rest
             /\ status' = [st EXCEPT ![request] = "processing"]
             /\ startedLog' = Append(startedLog, request)
             /\ handler' = [handler EXCEPT ![request] = "running"]
             /\ wait' = [wait EXCEPT ![request] = "pending"]
             /\ timerArmed' = [timerArmed EXCEPT ![request] = TRUE]
             /\ elapsed' = [elapsed EXCEPT ![request] = 0]
             /\ completeListeners' = completeListeners \cup {request}
             /\ failedListeners' = failedListeners \cup {request}

\* TelegramBot builds the request (status 'queued') and the Application's
\* requestReceived listener hands it to RequestQueue.addRequest.
AddRequest ==
    /\ nextId < MaxReq
    /\ LET request == nextId + 1
           created == [status EXCEPT ![request] = "queued"]
       IN  /\ nextId' = request
           /\ IF QueueFull(queue)
              THEN /\ rejected' = rejected \cup {request}
                   /\ status' = created
                   /\ UNCHANGED <<queue, processing, acceptLog, startedLog, wait,
                                  timerArmed, elapsed, completeListeners,
                                  failedListeners, handler>>
              ELSE /\ acceptLog' = Append(acceptLog, request)
                   /\ rejected' = rejected
                   /\ IF StartsProcessing(processing)
                      THEN ProcessNext(Append(queue, request), created)
                      ELSE /\ queue' = Append(queue, request)
                           /\ status' = created
                           /\ UNCHANGED <<processing, startedLog, wait, timerArmed,
                                          elapsed, completeListeners,
                                          failedListeners, handler>>
    /\ UNCHANGED <<completedCount, failedCount, failError, rejectReason, immediates>>

\* setImmediate(() => this.processNext())
ImmediateProcessNext ==
    /\ immediates > 0
    /\ immediates' = immediates - 1
    /\ ProcessNext(queue, status)
    /\ UNCHANGED <<nextId, acceptLog, rejected, completedCount, failedCount,
                   failError, rejectReason>>

\* markProcessingComplete: this.emit('processingComplete').  Every onComplete
\* still registered runs: clearTimeout, remove both listeners, resolve().
EmitProcessingComplete ==
    /\ wait' = [r \in Req |-> IF r \in completeListeners /\ wait[r] = "pending"
                              THEN "resolved" ELSE wait[r]]
    /\ timerArmed' = [r \in Req |-> IF r \in completeListeners THEN FALSE
                                    ELSE timerArmed[r]]
    /\ failedListeners' = failedListeners \ completeListeners
    /\ completeListeners' = {}
    /\ UNCHANGED rejectReason

\* markProcessingFailed(error): this.emit('processingFailed', error).  Every
\* onFailed still registered runs: clearTimeout, remove both, reject(error).
EmitProcessingFailed ==
    /\ wait' = [r \in Req |-> IF r \in failedListeners /\ wait[r] = "pending"
                              THEN "rejected" ELSE wait[r]]
    /\ rejectReason' = [r \in Req |-> IF r \in failedListeners /\ wait[r] = "pending"
                                      THEN "handler error" ELSE rejectReason[r]]
    /\ timerArmed' = [r \in Req |-> IF r \in failedListeners THEN FALSE
                                    ELSE timerArmed[r]]
    /\ completeListeners' = completeListeners \ failedListeners
    /\ failedListeners' = {}

\* The deadline timer's callback: reject(new Error('Request timeout')).
DeadlineExpires(r) ==
    /\ timerArmed[r]
    /\ elapsed[r] >= Deadline(r)
    /\ timerArmed' = [timerArmed EXCEPT ![r] = FALSE]
    /\ IF wait[r] = "pending"
       THEN /\ wait' = [wait EXCEPT ![r] = "rejected"]
            /\ rejectReason' = [rejectReason EXCEPT ![r] = "Request timeout"]
       ELSE UNCHANGED <<wait, rejectReason>>
    /\ UNCHANGED <<nextId, queue, processing, status, acceptLog, rejected,
                   startedLog, completedCount, failedCount, failError, elapsed,
                   completeListeners, failedListeners, immediates, handler>>

\* Time passes by one unit; a timer that is due fires before time moves on.
Tick ==
    /\ \E r \in Req : timerArmed[r]
    /\ \A r \in Req : timerArmed[r] => elapsed[r] < Deadline(r)
    /\ elapsed' = [r \in Req |-> IF timerArmed[r] THEN elapsed[r] + 1 ELSE elapsed[r]]
    /\ UNCHANGED <<nextId, queue, processing, status, acceptLog, rejected,
                   startedLog, completedCount, failedCount, failError, wait,
                   rejectReason, timerArmed, completeListeners, failedListeners,
                   immediates, handler>>

\* The continuation of processNext's await: lines 110-125.
Settle(r) ==
    /\ wait[r] \in {"resolved", "rejected"}
    /\ wait' = [wait EXCEPT ![r] = "settled"]
    /\ IF wait[r] = "resolved"
       THEN /\ status' = [status EXCEPT ![r] = "completed"]
            /\ completedCount' = [completedCount EXCEPT ![r] = @ + 1]
            /\ UNCHANGED <<failedCount, failError>>
       ELSE /\ status' = [status EXCEPT ![r] = "failed"]
            /\ failedCount' = [failedCount EXCEPT ![r] = @ + 1]
            /\ failError' = [failError EXCEPT ![r] = rejectReason[r]]
            /\ UNCHANGED completedCount
    /\ processing' = FALSE
    /\ immediates' = IF SchedulesNext(queue) THEN immediates + 1 ELSE immediates
    /\ UNCHANGED <<nextId, queue, acceptLog, rejected, startedLog, rejectReason,
                   timerArmed, elapsed, completeListeners, failedListeners, handler>>

\* ------------------------------------------- Application: requestStarted
\* try { await handleRequest(request); markProcessingComplete() }
HandlerReturns(r) ==
    /\ handler[r] = "running"
    /\ handler' = [handler EXCEPT ![r] = "returned"]
    /\ EmitProcessingComplete
    /\ UNCHANGED <<nextId, queue, processing, status, acceptLog, rejected,
                   startedLog, completedCount, failedCount, failError, elapsed,
                   immediates>>

\* catch (error) { markProcessingFailed(error) }
HandlerThrows(r) ==
    /\ handler[r] = "running"
    /\ handler' = [handler EXCEPT ![r] = "threw"]
    /\ EmitProcessingFailed
    /\ UNCHANGED <<nextId, queue, processing, status, acceptLog, rejected,
                   startedLog, completedCount, failedCount, failError, elapsed,
                   immediates>>

\* --------------------------------------------------- BotInteractionHandler

\* What the platform answers to one join attempt (joinChannelFromUrl): the
\* join succeeds, fails with USER_ALREADY_PARTICIPANT, fails with a flood
\* error 'A wait of N seconds is required', fails with a flood error whose
\* text the pattern /A wait of (\d+) seconds/ does not match, or fails
\* otherwise (bad URL, no such channel, any other error).
FloodWaits == {0, 45}

Answers ==
    {[kind |-> k, seconds |-> 0] : k \in {"joined", "already", "failed", "floodUnparsed"}}
    \cup {[kind |-> "flood", seconds |-> w] : w \in FloodWaits}

\* error.message.includes('A wait of')
RateLimited(a) == a.kind \in {"flood", "floodUnparsed"}

\* waitMatch ? parseInt(waitMatch[1]) : 0
WaitSeconds(a) == IF a.kind = "flood" THEN a.seconds ELSE 0

\* joinChannelFromUrl: the {success, floodWait} it returns
JoinChannelFromUrl(a) ==
    IF a.kind \in {"joined", "already"} THEN [success |-> TRUE, floodWait |-> 0]
    ELSE IF RateLimited(a) THEN [success |-> FALSE, floodWait |-> WaitSeconds(a)]
    ELSE [success |-> FALSE, floodWait |-> 0]

\* joinChannelsFromButtons: if (result.floodWait > 0) { ... break; }
StopsJoining(result) == result.floodWait > 0

Max(a, b) == IF a >= b THEN a ELSE b

\* joinChannelsFromButtons: the locals before the loop
JoinLoopStart ==
    [attempts |-> 0, successCount |-> 0, floodWaitDetected |-> FALSE, maxFloodWait |-> 0]

\* joinChannelsFromButtons: one iteration of the join loop
JoinLoopStep(st, result) ==
    LET joined == IF result.success THEN st.successCount + 1 ELSE st.successCount
    IN  IF StopsJoining(result)
        THEN [attempts |-> st.attempts + 1, successCount |-> joined,
              floodWaitDetected |-> TRUE,
              maxFloodWait |-> Max(st.maxFloodWait, result.floodWait)]
        ELSE [attempts |-> st.attempts + 1, successCount |-> joined,
              floodWaitDetected |-> st.floodWaitDetected,
              maxFloodWait |-> st.maxFloodWait]

\* joinChannelsFromButtons: the loop goes on while i < length and no break
JoinLoopContinues(st, total) == st.attempts < total /\ ~st.floodWaitDetected

\* joinChannelsFromButtons: the value returned after the loop
JoinLoopResult(st) ==
    IF st.floodWaitDetected
    THEN [success |-> FALSE, floodWait |-> st.maxFloodWait,
          joinedCount |-> st.successCount, attempts |-> st.attempts]
    ELSE [success |-> TRUE, floodWait |-> 0,
          joinedCount |-> st.successCount, attempts |-> st.attempts]

RECURSIVE JoinLoop(_, _)
\* joinChannelsFromButtons: the loop run against the answers the platform
\* would give to each button in turn
JoinLoop(st, answers) ==
    IF JoinLoopContinues(st, st.attempts + Len(answers))
    THEN JoinLoop(JoinLoopStep(st, JoinChannelFromUrl(Head(answers))), Tail(answers))
    ELSE st

JoinChannelsFromButtons(answers) == JoinLoopResult(JoinLoop(JoinLoopStart, answers))

\* The answers to the attempts a pass actually issues.
Attempted(answers) == SubSeq(answers, 1, JoinChannelsFromButtons(answers).attempts)

AnswerSeqs == UNION {[1..n -> Answers] : n \in 0..MaxButtons}

\* What one invocation of interactWithBot meets: whether the username
\* resolves, whether the start command is sent, the first response seen by
\* waitForResponseMessage (none within 30 s, a message with an inline
\* keyboard, a message without), the platform's answers to the join buttons
\* and the number of media items the listener has collected.
Scenarios ==
    [resolved : BOOLEAN, sent : BOOLEAN, response : {"none", "buttons", "plain"},
     answers : AnswerSeqs, mediaCount : 0..1]

NoOutcome == [success |-> FALSE, floodWait |-> 0, error |-> "pending"]

\* interactWithBot: the response it returns (success, error, floodWait; a
\* response without floodWait has floodWait 0 here)
InteractWithBot(sc) ==
    IF ~sc.resolved
    THEN [success |-> FALSE, floodWait |-> 0, error |-> "Bot not found"]
    ELSE IF ~sc.sent
    THEN [success |-> FALSE, floodWait |-> 0, error |-> "send failed"]
    ELSE IF sc.response = "none"
    THEN IF sc.mediaCount > 0
         THEN [success |-> TRUE, floodWait |-> 0, error |-> "none"]
         ELSE [success |-> FALSE, floodWait |-> 0, error |-> "Bot response timeout"]
    ELSE IF sc.response = "buttons"
    THEN LET joinResult == JoinChannelsFromButtons(sc.answers)
         IN  IF ~joinResult.success /\ joinResult.floodWait > 0
             THEN [success |-> FALSE, floodWait |-> joinResult.floodWait,
                   error |-> "FLOOD_WAIT"]
             ELSE [success |-> TRUE, floodWait |-> 0, error |-> "none"]
    ELSE [success |-> TRUE, floodWait |-> 0, error |-> "none"]

\* Whether the invocation issued a join attempt the platform rate-limited.
MainPassRateLimited(sc) ==
    /\ sc.resolved /\ sc.sent /\ sc.response = "buttons"
    /\ \E i \in 1..Len(Attempted(sc.answers)) : RateLimited(sc.answers[i])

EngineIdle == [phase |-> "idle", listening |-> FALSE, retryAttempted |-> FALSE,
               outcome |-> NoOutcome]

\* interactWithBot up to its return statement: resolveBot, the media listener
\* attached, the start command, waitForResponseMessage, the gating pass.
EngineRuns(r) ==
    /\ hpc[r] = "interacting"
    /\ eng[r].phase = "invoked"
    /\ \E sc \in Scenarios :
          /\ sc.response # "buttons" => sc.answers = <<>>
          /\ (~sc.resolved \/ ~sc.sent) => (sc.response = "none" /\ sc.mediaCount = 0)
          /\ sc.response # "none" => sc.mediaCount = 0
          /\ eng' = [eng EXCEPT ![r] = [phase |-> "ran", listening |-> sc.resolved /\ sc.sent,
                                        retryAttempted |-> @.retryAttempted,
                                        outcome |-> InteractWithBot(sc)]]
          /\ rateLimitedJoin' =
                IF MainPassRateLimited(sc)
                THEN [rateLimitedJoin EXCEPT ![r] = @ \cup {linkIdx[r] + 1}]
                ELSE rateLimitedJoin
    /\ UNCHANGED <<nLinks, hpc, linkIdx, rateLimitHit, outcomes, outcomesAtSettle, errorLines>>

\* The media listener's handler on a message from the responder that carries
\* an inline keyboard: if (!retryAttempted && message.replyMarkup ...) it
\* re-runs joinChannelsFromButtons, whose result it does not read, and
\* clicks the confirm button.
ListenerRecoveryPass(r) ==
    /\ hpc[r] = "interacting"
    /\ eng[r].phase = "ran"
    /\ eng[r].listening
    /\ ~eng[r].retryAttempted
    /\ \E answers \in AnswerSeqs :
          /\ eng' = [eng EXCEPT ![r].retryAttempted = TRUE]
          /\ rateLimitedJoin' =
                IF \E i \in 1..Len(Attempted(answers)) : RateLimited(answers[i])
                THEN [rateLimitedJoin EXCEPT ![r] = @ \cup {linkIdx[r] + 1}]
                ELSE rateLimitedJoin
    /\ UNCHANGED <<nLinks, hpc, linkIdx, rateLimitHit, outcomes, outcomesAtSettle, errorLines>>

\* -------------------------------------------------------- BotRequestHandler

AnyFailureStops(response) == ~response.success

\* handleRequest: if (!response.success) { if (response.floodWait) {...break}
StopsRequest(response) == ~response.success /\ response.floodWait > 0

ReportsNoFailure(response) == FALSE

\* handleRequest: a failed response without floodWait: sendErrorMessage
ReportsError(response) == ~response.success /\ ~(response.floodWait > 0)

\* handleRequest: for (let i = 0; i < request.botLinks.length; i++)
LoopContinues(i, n) == i < n

\* handleRequest from its first await to the head of the loop: the status
\* message is sent, the progress listeners are registered.
HandleRequestEnters(r) ==
    /\ handler[r] = "running"
    /\ hpc[r] = "none"
    /\ hpc' = [hpc EXCEPT ![r] = "loop"]
    /\ linkIdx' = [linkIdx EXCEPT ![r] = 0]
    /\ rateLimitHit' = [rateLimitHit EXCEPT ![r] = FALSE]
    /\ UNCHANGED <<nLinks, outcomes, outcomesAtSettle, errorLines, rateLimitedJoin, eng>>

\* The loop head: the next link is handed to interactWithBot, or the loop ends.
LoopHead(r) ==
    /\ hpc[r] = "loop"
    /\ IF LoopContinues(linkIdx[r], nLinks[r])
       THEN /\ hpc' = [hpc EXCEPT ![r] = "interacting"]
            /\ eng' = [eng EXCEPT ![r] = [EngineIdle EXCEPT !.phase = "invoked"]]
       ELSE /\ hpc' = [hpc EXCEPT ![r] = "finishing"]
            /\ eng' = eng
    /\ UNCHANGED <<nLinks, linkIdx, rateLimitHit, outcomes, outcomesAtSettle, errorLines,
                   rateLimitedJoin>>

\* interactWithBot returns: the loop body after the await.
InteractReturns(r) ==
    /\ hpc[r] = "interacting"
    /\ eng[r].phase = "ran"
    /\ LET response == eng[r].outcome
       IN  /\ outcomes' = [outcomes EXCEPT ![r] =
                              Append(@, [link |-> linkIdx[r] + 1,
                                         success |-> response.success,
                                         floodWait |-> response.floodWait])]
           /\ errorLines' = [errorLines EXCEPT ![r] =
                                IF ReportsError(response)
                                THEN Append(@, linkIdx[r] + 1) ELSE @]
           /\ IF StopsRequest(response)
              THEN /\ rateLimitHit' = [rateLimitHit EXCEPT ![r] = TRUE]
                   /\ hpc' = [hpc EXCEPT ![r] = "finishing"]
                   /\ linkIdx' = linkIdx
              ELSE /\ rateLimitHit' = rateLimitHit
                   /\ hpc' = [hpc EXCEPT ![r] = "loop"]
                   /\ linkIdx' = [linkIdx EXCEPT ![r] = @ + 1]
    /\ eng' = [eng EXCEPT ![r] = EngineIdle]
    /\ UNCHANGED <<nLinks, outcomesAtSettle, rateLimitedJoin>>

\* handleRequest returns (no call inside its try block throws: every
\* collaborator catches its own errors) and the Application's listener
\* calls markProcessingComplete.
HandleRequestReturns(r) ==
    /\ hpc[r] = "finishing"
    /\ hpc' = [hpc EXCEPT ![r] = "returned"]
    /\ HandlerReturns(r)
    /\ UNCHANGED <<nLinks, linkIdx, rateLimitHit, outcomes, outcomesAtSettle, errorLines,
                   rateLimitedJoin, eng>>

\* A request with one or more bot links reaches the queue.
RequestReceived ==
    /\ nextId < MaxCoordReq
    /\ AddRequest
    /\ \E n \in 1..MaxLinks : nLinks' = [nLinks EXCEPT ![nextId + 1] = n]
    /\ UNCHANGED <<hpc, linkIdx, rateLimitHit, outcomes, outcomesAtSettle, errorLines,
                   rateLimitedJoin, eng>>

\* The queue settles the request; the activation of handleRequest goes on.
QueueSettles(r) ==
    /\ Settle(r)
    /\ outcomesAtSettle' = [outcomesAtSettle EXCEPT ![r] = Len(outcomes[r])]
    /\ UNCHANGED <<nLinks, hpc, linkIdx, rateLimitHit, outcomes, errorLines,
                   rateLimitedJoin, eng>>

\* ------------------------------------- joinChannelsFromButtons, stepwise
JoinBegins ==
    /\ jpc = "idle"
    /\ \E n \in 0..MaxJoinButtons : jTotal' = n
    /\ jpc' = "joining"
    /\ jLoop' = JoinLoopStart
    /\ jLog' = <<>>
    /\ UNCHANGED jResult

\* One iteration: the attempt is issued and the platform answers.
JoinAttempt ==
    /\ jpc = "joining"
    /\ JoinLoopContinues(jLoop, jTotal)
    /\ \E a \in Answers :
          /\ jLog' = Append(jLog, a)
          /\ jLoop' = JoinLoopStep(jLoop, JoinChannelFromUrl(a))
    /\ UNCHANGED <<jpc, jTotal, jResult>>

JoinReturns ==
    /\ jpc = "joining"
    /\ ~JoinLoopContinues(jLoop, jTotal)
    /\ jResult' = JoinLoopResult(jLoop)
    /\ jpc' = "returned"
    /\ UNCHANGED <<jTotal, jLoop, jLog>>

\* ------------------------------------- interactWithBot against the clock

\* What the responder may send after the trigger: a message with an inline
\* keyboard of join buttons and a confirm row, a media item, a text.  A
\* message is matched by its senderId, or (peerOnly) by its peerId alone.
Messages ==
    {[kind |-> "buttons", peerOnly |-> FALSE, channels |-> n] : n \in 1..MaxChannels}
    \cup {[kind |-> "media", peerOnly |-> b, channels |-> 0] : b \in BOOLEAN}
    \cup {[kind |-> "text", peerOnly |-> FALSE, channels |-> 0]}

\* waitForResponseMessage: message.senderId?.toString() === bot.id.toString()
SenderMatches(m) == ~m.peerOnly

\* media handler: isFromBot, by senderId, senderId.value or peerId.userId
IsFromBot(m) == SenderMatches(m) \/ m.peerOnly

\* message.replyMarkup && message.replyMarkup.rows
HasKeyboard(m) == m.kind = "buttons"

\* message.photo || message.video || message.document
HasMedia(m) == m.kind = "media"

RetryOnEveryKeyboard(attempted, m) == HasKeyboard(m)

\* media handler: if (!retryAttempted && message.replyMarkup && ...rows)
StartsRetry(attempted, m) == ~attempted /\ HasKeyboard(m)

\* checkTimeout: Date.now() - lastMessageTime > mediaTimeout
CollectionExpired(since) == since > mediaTimeout

\* What the platform answers to a click on the confirm button: an
\* acknowledgement, BOT_RESPONSE_TIMEOUT, another error, a popup alert whose
\* text contains 'join', 'subscribe' or the Persian keyword, another popup.
ConfirmAnswers == {"ack", "noAck", "error", "popupJoin", "popupOther"}

RetriesUnlessAcknowledged(answer) == answer # "ack"

\* interactWithBot: callbackResult && callbackResult.alert && the keywords
RetriesConfirm(answer) == answer = "popupJoin"

NoMessage == [state |-> "pending", id |-> 0, kind |-> "none", channels |-> 0]

NullMessage == [state |-> "null", id |-> 0, kind |-> "none", channels |-> 0]

Succeeded == [success |-> TRUE, floodWait |-> 0, error |-> "none"]

Failed(text) == [success |-> FALSE, floodWait |-> 0, error |-> text]

SendFaultEscapes(phase) == phase # "sending"

\* interactWithBot: the try block spans the whole body
Caught(phase) == TRUE

NoResponseAlwaysFails(count) == Failed("Bot response timeout")

\* interactWithBot: the outcome when waitForResponseMessage resolved null
NoResponseOutcome(count) ==
    IF count > 0 THEN Succeeded ELSE Failed("Bot response timeout")

Min(a, b) == IF a <= b THEN a ELSE b

flowVars == <<epc, eOutcome, mLoop, mSleep>>

listenerVars == <<mAttached, mInterval, sinceLast, pollDue, mediaCount,
                  retryAttempted, mResolved, mResult>>

responseVars == <<rAttached, rTimer, rElapsed, rResult>>

retryVars == <<retryPc, retryLoop, retrySleep, retryMsg>>

observed == <<delivered, clicks, lastItemAge, finalGap, keyboards>>

\* interactWithBot is called for a link.
Invoke ==
    /\ epc = "idle"
    /\ epc' = "resolving"
    /\ UNCHANGED <<eOutcome, mLoop, mSleep, triggerSent, listenerVars,
                   responseVars, retryVars, observed>>

\* resolveBot has answered: 'Bot not found' is returned, or the media
\* listener is attached (waitAndForwardMediaMessagesWithRetry runs up to
\* client.addEventHandler) and the setImmediate pause is awaited.
Resolved ==
    /\ epc = "resolving"
    /\ \E found \in BOOLEAN :
          IF found
          THEN /\ epc' = "attached"
               /\ mAttached' = TRUE
               /\ mInterval' = TRUE
               /\ sinceLast' = 0
               /\ UNCHANGED eOutcome
          ELSE /\ epc' = "returned"
               /\ eOutcome' = Failed("Bot not found")
               /\ UNCHANGED <<mAttached, mInterval, sinceLast>>
    /\ UNCHANGED <<mLoop, mSleep, triggerSent, pollDue, mediaCount, retryAttempted,
                   mResolved, mResult, responseVars, retryVars, observed>>

\* sendStartCommand: client.sendMessage is issued.
SendStartCommand ==
    /\ epc = "attached"
    /\ epc' = "sending"
    /\ triggerSent' = TRUE
    /\ UNCHANGED <<eOutcome, mLoop, mSleep, listenerVars, responseVars, retryVars,
                   observed>>

\* client.sendMessage has settled: on success waitForResponseMessage sets
\* its timer and registers its handler; on failure sendStartCommand rethrows
\* and the catch block of interactWithBot returns the failure.
StartCommandSettles ==
    /\ epc = "sending"
    /\ \E ok \in BOOLEAN :
          IF ok
          THEN /\ epc' = "awaitingResponse"
               /\ rAttached' = TRUE
               /\ rTimer' = TRUE
               /\ rElapsed' = 0
               /\ UNCHANGED eOutcome
          ELSE /\ IF Caught(epc)
                  THEN epc' = "returned" /\ eOutcome' = Failed("send failed")
                  ELSE epc' = "threw" /\ UNCHANGED eOutcome
               /\ UNCHANGED <<rAttached, rTimer, rElapsed>>
    /\ UNCHANGED <<mLoop, mSleep, triggerSent, listenerVars, rResult, retryVars,
                   observed>>

\* The 30 s timer of waitForResponseMessage fires: resolve(null).  The
\* handler stays registered.
ResponseTimeout ==
    /\ rTimer
    /\ rElapsed = responseTimeout
    /\ rTimer' = FALSE
    /\ rResult' = IF rResult.state = "pending" THEN NullMessage ELSE rResult
    /\ UNCHANGED <<flowVars, triggerSent, listenerVars, rAttached, rElapsed,
                   retryVars, observed>>

\* interactWithBot after await waitForResponseMessage: no response, a
\* response with an inline keyboard, or any other response.
AfterResponse ==
    /\ epc = "awaitingResponse"
    /\ rResult.state # "pending"
    /\ IF rResult.state = "null"
       THEN epc' = "noResponse" /\ UNCHANGED <<mLoop, mSleep>>
       ELSE IF rResult.kind = "buttons"
       THEN epc' = "joining" /\ mLoop' = JoinLoopStart /\ mSleep' = 0
       ELSE epc' = "collecting" /\ UNCHANGED <<mLoop, mSleep>>
    /\ UNCHANGED <<eOutcome, triggerSent, listenerVars, responseVars, retryVars,
                   observed>>

\* The answers of the platform to a join that the clocked model draws from.
EngineAnswers == {a \in Answers : a.kind \in {"joined", "flood"}}

\* Gating pass, one iteration of joinChannelsFromButtons: the join is
\* attempted; unless the loop breaks, sleep(3000) follows.
GatingJoin ==
    /\ epc = "joining"
    /\ mSleep = 0
    /\ JoinLoopContinues(mLoop, rResult.channels)
    /\ \E a \in EngineAnswers :
          LET result == JoinChannelFromUrl(a)
          IN  /\ mLoop' = JoinLoopStep(mLoop, result)
              /\ mSleep' = IF StopsJoining(result) THEN 0 ELSE joinDelay
    /\ UNCHANGED <<epc, eOutcome, triggerSent, listenerVars, responseVars,
                   retryVars, observed>>

\* Gating pass, after the loop: on a detected flood wait joinChannelsFromButtons
\* returns at once and interactWithBot returns the rate-limit outcome;
\* otherwise sleep(5000) follows.
GatingJoinsEnd ==
    /\ epc = "joining"
    /\ mSleep = 0
    /\ ~JoinLoopContinues(mLoop, rResult.channels)
    /\ LET joinResult == JoinLoopResult(mLoop)
       IN  IF mLoop.floodWaitDetected
           THEN IF ~joinResult.success /\ joinResult.floodWait > 0
                THEN /\ epc' = "returned"
                     /\ eOutcome' = [success |-> FALSE,
                                     floodWait |-> joinResult.floodWait,
                                     error |-> "FLOOD_WAIT"]
                     /\ UNCHANGED mSleep
                ELSE /\ epc' = "confirming"
                     /\ UNCHANGED <<eOutcome, mSleep>>
           ELSE /\ epc' = "settling"
                /\ mSleep' = settleDelay
                /\ UNCHANGED eOutcome
    /\ UNCHANGED <<mLoop, triggerSent, listenerVars, responseVars, retryVars,
                   observed>>

\* The settle delay of the gating pass is over.
GatingSettled ==
    /\ epc = "settling"
    /\ mSleep = 0
    /\ epc' = "confirming"
    /\ UNCHANGED <<eOutcome, mLoop, mSleep, triggerSent, listenerVars,
                   responseVars, retryVars, observed>>

\* clickConfirmButton on the initial response; a popup alert asking to join
\* is followed by sleep(5000) and a second click.
ClickConfirmAnswered(answer) ==
    /\ epc = "confirming"
    /\ clicks' = [clicks EXCEPT ![rResult.id] = @ + 1]
    /\ IF RetriesConfirm(answer)
       THEN epc' = "popupWait" /\ mSleep' = popupDelay
       ELSE epc' = "collecting" /\ UNCHANGED mSleep
    /\ UNCHANGED <<eOutcome, mLoop, triggerSent, listenerVars, responseVars,
                   retryVars, delivered, lastItemAge, finalGap, keyboards>>

\* The platform answers the click in one of the ways it can.
ClickConfirm == \E answer \in ConfirmAnswers : ClickConfirmAnswered(answer)

\* The same click, with the answer clickConfirmButton got kept.
ClickConfirmObserved ==
    \E answer \in ConfirmAnswers :
        /\ ClickConfirmAnswered(answer)
        /\ callbackAnswer' = answer

\* The popup delay is over: clickConfirmButton once more, its result unread.
ClickConfirmAgain ==
    /\ epc = "popupWait"
    /\ mSleep = 0
    /\ clicks' = [clicks EXCEPT ![rResult.id] = @ + 1]
    /\ epc' = "collecting"
    /\ UNCHANGED <<eOutcome, mLoop, mSleep, triggerSent, listenerVars,
                   responseVars, retryVars, delivered, lastItemAge, finalGap,
                   keyboards>>

\* await mediaCollectionPromise is over, after a response: success.
Collected ==
    /\ epc = "collecting"
    /\ mResolved
    /\ epc' = "returned"
    /\ eOutcome' = Succeeded
    /\ UNCHANGED <<mLoop, mSleep, triggerSent, listenerVars, responseVars,
                   retryVars, observed>>

\* await mediaCollectionPromise is over, after no response.
CollectedWithoutResponse ==
    /\ epc = "noResponse"
    /\ mResolved
    /\ epc' = "returned"
    /\ eOutcome' = NoResponseOutcome(mResult)
    /\ UNCHANGED <<mLoop, mSleep, triggerSent, listenerVars, responseVars,
                   retryVars, observed>>

\* A message of the responder reaches the client: every registered handler
\* runs up to its first await.  The media handler resets lastMessageTime and
\* starts its join + confirm pass or counts a media item; the handler of
\* waitForResponseMessage clears its timer, removes itself and resolves.
DeliverMessage(m) ==
    /\ triggerSent
    /\    LET id == delivered + 1
              heard == mAttached /\ IsFromBot(m)
              retries == heard /\ StartsRetry(retryAttempted, m)
              collects == heard /\ ~retries /\ HasMedia(m)
              answers == rAttached /\ SenderMatches(m)
          IN  /\ delivered' = id
              /\ keyboards' = IF HasKeyboard(m) THEN keyboards + 1 ELSE keyboards
              /\ sinceLast' = IF heard THEN 0 ELSE sinceLast
              /\ retryAttempted' = (retryAttempted \/ retries)
              /\ IF retries
                 THEN /\ retryPc' = "joining"
                      /\ retryLoop' = JoinLoopStart
                      /\ retrySleep' = 0
                      /\ retryMsg' = [id |-> id, channels |-> m.channels]
                 ELSE UNCHANGED retryVars
              /\ mediaCount' = IF collects THEN mediaCount + 1 ELSE mediaCount
              /\ lastItemAge' = IF collects THEN 0 ELSE lastItemAge
              /\ rAttached' = (rAttached /\ ~answers)
              /\ rTimer' = (rTimer /\ ~answers)
              /\ rResult' = IF answers /\ rResult.state = "pending"
                            THEN [state |-> "message", id |-> id, kind |-> m.kind,
                                  channels |-> m.channels]
                            ELSE rResult
    /\ UNCHANGED <<flowVars, triggerSent, mAttached, mInterval, pollDue, mResolved,
                   mResult, rElapsed, clicks, finalGap>>

\* Any message the responder may send, up to the bound.
Deliver ==
    /\ delivered < MaxMsgs
    /\ \E m \in Messages : DeliverMessage(m)

\* The listener's pass, one iteration of joinChannelsFromButtons.
RetryJoin ==
    /\ retryPc = "joining"
    /\ retrySleep = 0
    /\ JoinLoopContinues(retryLoop, retryMsg.channels)
    /\ \E a \in EngineAnswers :
          LET result == JoinChannelFromUrl(a)
          IN  /\ retryLoop' = JoinLoopStep(retryLoop, result)
              /\ retrySleep' = IF StopsJoining(result) THEN 0 ELSE joinDelay
    /\ UNCHANGED <<flowVars, triggerSent, listenerVars, responseVars, retryPc,
                   retryMsg, observed>>

\* The listener's pass after the loop: the result of joinChannelsFromButtons
\* is not read; it has slept 5000 ms unless a flood wait was detected.
RetryJoinsEnd ==
    /\ retryPc = "joining"
    /\ retrySleep = 0
    /\ ~JoinLoopContinues(retryLoop, retryMsg.channels)
    /\ IF retryLoop.floodWaitDetected
       THEN retryPc' = "confirming" /\ UNCHANGED retrySleep
       ELSE retryPc' = "settling" /\ retrySleep' = settleDelay
    /\ UNCHANGED <<flowVars, triggerSent, listenerVars, responseVars, retryLoop,
                   retryMsg, observed>>

RetrySettled ==
    /\ retryPc = "settling"
    /\ retrySleep = 0
    /\ retryPc' = "confirming"
    /\ UNCHANGED <<flowVars, triggerSent, listenerVars, responseVars, retryLoop,
                   retrySleep, retryMsg, observed>>

\* The listener's pass clicks the confirm button of the message that started
\* it and resets lastMessageTime.
RetryConfirm ==
    /\ retryPc = "confirming"
    /\ clicks' = [clicks EXCEPT ![retryMsg.id] = @ + 1]
    /\ sinceLast' = 0
    /\ retryPc' = "done"
    /\ UNCHANGED <<flowVars, triggerSent, mAttached, mInterval, pollDue, mediaCount,
                   retryAttempted, mResolved, mResult, responseVars, retryLoop,
                   retrySleep, retryMsg, delivered, lastItemAge, finalGap, keyboards>>

\* A callback of the checkTimeout interval: after more than mediaTimeout of
\* silence it clears the interval, removes the media handler and resolves.
CheckTimeout ==
    /\ pollDue
    /\ pollDue' = FALSE
    /\ IF mInterval /\ CollectionExpired(sinceLast)
       THEN /\ mInterval' = FALSE
            /\ mAttached' = FALSE
            /\ mResolved' = TRUE
            /\ mResult' = mediaCount
            /\ finalGap' = lastItemAge
       ELSE UNCHANGED <<mInterval, mAttached, mResolved, mResult, finalGap>>
    /\ UNCHANGED <<flowVars, triggerSent, sinceLast, mediaCount, retryAttempted,
                   responseVars, retryVars, delivered, clicks, lastItemAge, keyboards>>

\* A step of interactWithBot or of the listener's pass that waits for no timer.
FlowReady ==
    \/ epc \in {"resolving", "attached", "sending", "confirming"}
    \/ epc = "awaitingResponse" /\ rResult.state # "pending"
    \/ epc \in {"collecting", "noResponse"} /\ mResolved
    \/ epc \in {"joining", "settling", "popupWait"} /\ mSleep = 0
    \/ retryPc \in {"joining", "settling"} /\ retrySleep = 0
    \/ retryPc = "confirming"

TimerDue == pollDue \/ (rTimer /\ rElapsed = responseTimeout)

TimerRunning == mInterval \/ rTimer \/ mSleep > 0 \/ retrySleep > 0

\* One second passes: platform calls take no time, so a second passes only
\* when every continuation that is ready and every due timer has run.
ClockTick ==
    /\ ~FlowReady
    /\ ~TimerDue
    /\ TimerRunning
    /\ sinceLast' = IF mInterval THEN sinceLast + checkInterval ELSE sinceLast
    /\ pollDue' = mInterval
    /\ rElapsed' = IF rTimer THEN rElapsed + checkInterval ELSE rElapsed
    /\ mSleep' = IF mSleep > 0 THEN mSleep - checkInterval ELSE mSleep
    /\ retrySleep' = IF retrySleep > 0 THEN retrySleep - checkInterval ELSE retrySleep
    /\ lastItemAge' = IF mInterval /\ lastItemAge >= 0
                      THEN Min(lastItemAge + checkInterval, mediaTimeout + 2)
                      ELSE lastItemAge
    /\ UNCHANGED <<epc, eOutcome, mLoop, triggerSent, mAttached, mInterval,
                   mediaCount, retryAttempted, mResolved, mResult, rAttached, rTimer,
                   rResult, retryPc, retryLoop, retryMsg, delivered, clicks, finalGap,
                   keyboards>>

EInit ==
    /\ epc = "idle"
    /\ eOutcome = NoOutcome
    /\ triggerSent = FALSE
    /\ delivered = 0
    /\ mAttached = FALSE
    /\ mInterval = FALSE
    /\ sinceLast = 0
    /\ pollDue = FALSE
    /\ mediaCount = 0
    /\ retryAttempted = FALSE
    /\ mResolved = FALSE
    /\ mResult = 0
    /\ rAttached = FALSE
    /\ rTimer = FALSE
    /\ rElapsed = 0
    /\ rResult = NoMessage
    /\ mLoop = JoinLoopStart
    /\ mSleep = 0
    /\ retryPc = "none"
    /\ retryLoop = JoinLoopStart
    /\ retrySleep = 0
    /\ retryMsg = [id |-> 0, channels |-> 0]
    /\ clicks = [i \in 1..MaxMsgs |-> 0]
    /\ lastItemAge = -1
    /\ finalGap = -1
    /\ keyboards = 0


\* ------------------------------------ handleRequest and its media forwards

\* How an invocation of interactWithBot ends for handleRequest: its outcome
\* and whether its media listener is still attached when it returns (it is
\* after a failed trigger send and after a rate-limit return).
Endings ==
    {[success |-> TRUE, floodWait |-> 0, attached |-> FALSE],
     [success |-> FALSE, floodWait |-> 0, attached |-> FALSE],
     [success |-> FALSE, floodWait |-> 0, attached |-> TRUE],
     [success |-> FALSE, floodWait |-> 45, attached |-> TRUE]}

\* The forwards whose promise is still pending.
InFlight == (1..fStarted) \ fFinished

\* handleRequest: await Promise.all(this.pendingMediaForwards) takes the
\* promises that are in the array when it is called
PromiseAll(started) == started

\* handleRequest is called for a request taken from the relay identity:
\* pendingMediaForwards = [], the status message, the listeners.
ForwardEnter ==
    /\ fpc = "idle"
    /\ \E n \in 1..MaxTargets : fLinks' = n
    /\ fpc' = "loop"
    /\ fHandlerOn' = TRUE
    /\ UNCHANGED <<fIdx, fRateLimitHit, fListeners, fStarted, fFinished, fAwaited,
                   fSignal>>

\* Loop head: interactWithBot is invoked for the next link and attaches its
\* media listener, or the loop is over.
ForwardLoopHead ==
    /\ fpc = "loop"
    /\ IF LoopContinues(fIdx, fLinks)
       THEN /\ fpc' = "interacting"
            /\ fListeners' = fListeners \cup {fIdx + 1}
       ELSE /\ fpc' = "afterLoop"
            /\ UNCHANGED fListeners
    /\ UNCHANGED <<fLinks, fIdx, fRateLimitHit, fHandlerOn, fStarted, fFinished,
                   fAwaited, fSignal>>

\* An attached media listener receives a media item and emits mediaReceived;
\* mediaReceivedHandler, if registered, starts forwardMediaToBotAccount and
\* pushes its promise.
MediaReceived ==
    /\ fListeners # {}
    /\ fStarted < MaxForwards
    /\ fHandlerOn
    /\ fStarted' = fStarted + 1
    /\ UNCHANGED <<fpc, fLinks, fIdx, fRateLimitHit, fHandlerOn, fListeners,
                   fFinished, fAwaited, fSignal>>

\* forwardMediaToBotAccount has finished (it catches its own errors).
ForwardFinishes ==
    /\ \E f \in InFlight : fFinished' = fFinished \cup {f}
    /\ UNCHANGED <<fpc, fLinks, fIdx, fRateLimitHit, fHandlerOn, fListeners,
                   fStarted, fAwaited, fSignal>>

\* interactWithBot returns: the loop body after the await.
ForwardInteractReturns ==
    /\ fpc = "interacting"
    /\ \E response \in Endings :
          /\ fListeners' = IF response.attached THEN fListeners
                           ELSE fListeners \ {fIdx + 1}
          /\ IF StopsRequest(response)
             THEN /\ fRateLimitHit' = TRUE
                  /\ fpc' = "afterLoop"
                  /\ UNCHANGED fIdx
             ELSE /\ fpc' = "loop"
                  /\ fIdx' = fIdx + 1
                  /\ UNCHANGED fRateLimitHit
    /\ UNCHANGED <<fLinks, fHandlerOn, fStarted, fFinished, fAwaited, fSignal>>

\* checkTimeout removes a media listener that outlived its invocation.
LeftListenerExpires ==
    /\ \E k \in fListeners :
          /\ fpc = "interacting" => k # fIdx + 1
          /\ fListeners' = fListeners \ {k}
    /\ UNCHANGED <<fpc, fLinks, fIdx, fRateLimitHit, fHandlerOn, fStarted,
                   fFinished, fAwaited, fSignal>>

\* After the loop: without a rate limit and with forwards pushed, the status
\* is updated and Promise.all awaited; without forwards the Done message is
\* sent; after a rate limit both are skipped.
ForwardAfterLoop ==
    /\ fpc = "afterLoop"
    /\ fpc' = IF fRateLimitHit THEN "cleanup"
              ELSE IF fStarted > 0 THEN "updating"
              ELSE "done"
    /\ UNCHANGED <<fLinks, fIdx, fRateLimitHit, fHandlerOn, fListeners, fStarted,
                   fFinished, fAwaited, fSignal>>

\* 'Forwarding n file(s)' has been sent: Promise.all is called.
ForwardAwaitAll ==
    /\ fpc = "updating"
    /\ fAwaited' = PromiseAll(fStarted)
    /\ fpc' = "waiting"
    /\ UNCHANGED <<fLinks, fIdx, fRateLimitHit, fHandlerOn, fListeners, fStarted,
                   fFinished, fSignal>>

\* Promise.all has resolved: the Done message is sent.
ForwardAllSettled ==
    /\ fpc = "waiting"
    /\ (1..fAwaited) \subseteq fFinished
    /\ fpc' = "done"
    /\ UNCHANGED <<fLinks, fIdx, fRateLimitHit, fHandlerOn, fListeners, fStarted,
                   fFinished, fAwaited, fSignal>>

\* The listeners are removed, handleRequest returns and the Application's
\* requestStarted listener calls markProcessingComplete.
ForwardReturns ==
    /\ fpc \in {"done", "cleanup"}
    /\ fHandlerOn' = FALSE
    /\ fpc' = "returned"
    /\ fSignal' = "complete"
    /\ UNCHANGED <<fLinks, fIdx, fRateLimitHit, fListeners, fStarted, fFinished,
                   fAwaited>>

FInit ==
    /\ fpc = "idle"
    /\ fLinks = 0
    /\ fIdx = 0
    /\ fRateLimitHit = FALSE
    /\ fHandlerOn = FALSE
    /\ fListeners = {}
    /\ fStarted = 0
    /\ fFinished = {}
    /\ fAwaited = 0
    /\ fSignal = "none"

\* ------------------------------------------------------------------ Spec
QInit ==
    /\ nextId = 0
    /\ queue = <<>>
    /\ processing = FALSE
    /\ status = [r \in Req |-> "none"]
    /\ acceptLog = <<>>
    /\ rejected = {}
    /\ startedLog = <<>>
    /\ completedCount = [r \in Req |-> 0]
    /\ failedCount = [r \in Req |-> 0]
    /\ failError = [r \in Req |-> "none"]
    /\ wait = [r \in Req |-> "none"]
    /\ rejectReason = [r \in Req |-> "none"]
    /\ timerArmed = [r \in Req |-> FALSE]
    /\ elapsed = [r \in Req |-> 0]
    /\ completeListeners = {}
    /\ failedListeners = {}
    /\ immediates = 0
    /\ handler = [r \in Req |-> "none"]

CInit ==
    /\ nLinks = [r \in Req |-> 0]
    /\ hpc = [r \in Req |-> "none"]
    /\ linkIdx = [r \in Req |-> 0]
    /\ rateLimitHit = [r \in Req |-> FALSE]
    /\ outcomes = [r \in Req |-> <<>>]
    /\ outcomesAtSettle = [r \in Req |-> 0]
    /\ errorLines = [r \in Req |-> <<>>]
    /\ rateLimitedJoin = [r \in Req |-> {}]
    /\ eng = [r \in Req |-> EngineIdle]

\* ------------------------------------------- the status message of a request
\* updateStatus creates a message when this.statusMessageId is not set.
Creates(id) == id = 0

\* handleRequest is entered: `this.statusMessageId = await
\* this.sendStatusUpdate('Starting...')` assigns the id of the message created,
\* or null when the send failed; the listeners are registered and
\* interactWithBot is invoked.
StatusEnter ==
    /\ sPc = "idle"
    /\ \E ok \in BOOLEAN :
        /\ statusMessageId' = (IF ok THEN sCreated + 1 ELSE 0)
        /\ sCreated' = IF ok THEN sCreated + 1 ELSE sCreated
    /\ sPc' = "interacting"
    /\ UNCHANGED <<sSends, sAwaited, sEdits, sCalls>>

\* channelProgress, mediaProgress or floodWait fires during interactWithBot:
\* its listener calls updateStatus and does not await it.
ProgressEvent ==
    /\ sPc = "interacting"
    /\ sCalls < MaxPhases
    /\ sCalls' = sCalls + 1
    /\ IF Creates(statusMessageId)
       THEN sSends' = sSends + 1 /\ UNCHANGED sEdits
       ELSE sEdits' = sEdits + 1 /\ UNCHANGED sSends
    /\ UNCHANGED <<sPc, statusMessageId, sCreated, sAwaited>>

\* handleRequest itself calls updateStatus and awaits it: the link counter,
\* the rate-limit notice, Forwarding, Done.
AwaitedUpdate ==
    /\ sPc = "interacting"
    /\ sCalls < MaxPhases
    /\ sCalls' = sCalls + 1
    /\ sPc' = "updating"
    /\ IF Creates(statusMessageId)
       THEN sAwaited' = "send" /\ UNCHANGED sEdits
       ELSE sAwaited' = "edit" /\ sEdits' = sEdits + 1
    /\ UNCHANGED <<statusMessageId, sCreated, sSends>>

\* A call of updateStatus settles: the one handleRequest awaits, or one a
\* listener started. A send assigns this.statusMessageId as above.
UpdateSettles(awaited) ==
    /\ IF awaited
       THEN /\ sPc = "updating"
            /\ sPc' = "interacting"
            /\ sAwaited' = "none"
            /\ UNCHANGED sSends
       ELSE /\ sSends > 0
            /\ sSends' = sSends - 1
            /\ UNCHANGED <<sPc, sAwaited>>
    /\ IF awaited /\ sAwaited = "edit"
       THEN UNCHANGED <<statusMessageId, sCreated>>
       ELSE \E ok \in BOOLEAN :
               /\ statusMessageId' = (IF ok THEN sCreated + 1 ELSE 0)
               /\ sCreated' = IF ok THEN sCreated + 1 ELSE sCreated
    /\ UNCHANGED <<sEdits, sCalls>>

\* handleRequest returns: its finally block resets the fields.
StatusReturns ==
    /\ sPc = "interacting"
    /\ sPc' = "returned"
    /\ statusMessageId' = 0
    /\ UNCHANGED <<sCreated, sSends, sAwaited, sEdits, sCalls>>

SInit ==
    /\ sPc = "idle"
    /\ statusMessageId = 0
    /\ sCreated = 0
    /\ sSends = 0
    /\ sAwaited = "none"
    /\ sEdits = 0
    /\ sCalls = 0

\* ----------------------------- one request, one target: the whole exchange
\* What the listeners that handleRequest registered do with the events of a
\* step: channelProgress and mediaProgress hand a text to updateStatus,
\* mediaReceived starts a forward.
Listeners ==
    /\ phases' =
          IF mLoop'.attempts > mLoop.attempts
          THEN Append(phases, <<"Joining", mLoop'.attempts>>)
          ELSE IF retryLoop'.attempts > retryLoop.attempts
          THEN Append(phases, <<"Joining", retryLoop'.attempts>>)
          ELSE IF mediaCount' > mediaCount
          THEN Append(phases, <<"Receiving", mediaCount'>>)
          ELSE phases
    /\ forwarded' = IF mediaCount' > mediaCount THEN forwarded + 1 ELSE forwarded

\* handleRequest is entered for a request from the relay identity with one
\* link: the status message is created and interactWithBot is called.
ScenarioStart ==
    /\ xPc = "idle"
    /\ xPc' = "interacting"
    /\ phases' = << <<"Starting", 0>> >>
    /\ Invoke
    /\ UNCHANGED <<forwarded, quiet>>

\* A step of interactWithBot or of its listener's pass with handleRequest's
\* listeners registered, on a platform without faults: the target resolves,
\* the trigger is sent, no join is refused, the confirm click is acknowledged.
Exchange(step) ==
    /\ xPc = "interacting"
    /\ step
    /\ eOutcome' = NoOutcome \/ eOutcome'.success
    /\ ~mLoop'.floodWaitDetected
    /\ ~retryLoop'.floodWaitDetected
    /\ epc' # "popupWait"
    /\ Listeners
    /\ quiet' = IF clicks[1] = 0 /\ clicks'[1] > 0 THEN 0 ELSE quiet
    /\ UNCHANGED xPc

\* The responder sends its next message: the keyboard with two join buttons
\* and a confirm button after the trigger, the first media item after the
\* first confirm click, the others 2 s apart.
Responder ==
    /\ xPc = "interacting"
    /\ \/ delivered = 0 /\ epc = "awaitingResponse"
          /\ DeliverMessage([kind |-> "buttons", peerOnly |-> FALSE, channels |-> 2])
       \/ delivered = 1 /\ clicks[1] > 0
          /\ DeliverMessage([kind |-> "media", peerOnly |-> FALSE, channels |-> 0])
       \/ delivered \in {2, 3} /\ quiet = 2
          /\ DeliverMessage([kind |-> "media", peerOnly |-> FALSE, channels |-> 0])
    /\ Listeners
    /\ quiet' = 0
    /\ UNCHANGED xPc

\* A second passes, unless a message of the responder is due: the keyboard at
\* once, the first media item at most MaxLatency after the first confirm click.
ScenarioTick ==
    /\ xPc = "interacting"
    /\ ~(delivered = 0 /\ epc = "awaitingResponse")
    /\ ~(delivered = 1 /\ clicks[1] > 0 /\ quiet >= MaxLatency)
    /\ ~(delivered \in {2, 3} /\ quiet >= 2)
    /\ ClockTick
    /\ quiet' = Min(quiet + checkInterval, mediaTimeout + 2)
    /\ UNCHANGED <<xPc, phases, forwarded>>

\* interactWithBot has returned success: handleRequest awaits the forwards
\* when there are any, reports Done and returns.
ScenarioEnd ==
    /\ xPc = "interacting"
    /\ epc = "returned"
    /\ eOutcome.success
    /\ xPc' = "done"
    /\ phases' = IF forwarded > 0
                 THEN phases \o << <<"Forwarding", forwarded>>, <<"Done", forwarded>> >>
                 ELSE Append(phases, <<"Done", forwarded>>)
    /\ UNCHANGED <<forwarded, quiet, evars>>

XInit ==
    /\ xPc = "idle"
    /\ phases = <<>>
    /\ forwarded = 0
    /\ quiet = 0

\* ------------------------------------------- Application: the relay path
AppReq == 1..MaxAppReq

\* requestReceived listener: the request is queued when the loop over its links
\* is over.
QueuesAtOnce(i, n) == TRUE

LoopOver(i, n) == i > n

\* requestReceived is emitted for a request; request r comes from user r in
\* chat r.
Receive(r) ==
    /\ aPc[r] = "none"
    /\ \E n \in 1..MaxAppLinks : aLinks' = [aLinks EXCEPT ![r] = n]
    /\ aPc' = [aPc EXCEPT ![r] = "resolving"]
    /\ aIdx' = [aIdx EXCEPT ![r] = 1]
    /\ UNCHANGED <<activeRequests, entryAge, sinceSweep, registered, unresolved,
                   invoked, aQueue, aBusy, items, mediaMessageTracker, deletion>>

\* requestReceived listener, one iteration: ResolveUsername has settled; with
\* a user in the result addRequest is called.  After the last iteration the
\* request is handed to the queue.
ResolveLink(r) ==
    /\ aPc[r] = "resolving"
    /\ \E found \in BOOLEAN :
          IF found
          THEN /\ activeRequests' = [activeRequests EXCEPT ![aIdx[r]] = r]
               /\ entryAge' = [entryAge EXCEPT ![aIdx[r]] = 0]
               /\ registered' = registered \cup {<<r, aIdx[r]>>}
               /\ UNCHANGED unresolved
          ELSE /\ unresolved' = unresolved \cup {<<r, aIdx[r]>>}
               /\ UNCHANGED <<activeRequests, entryAge, registered>>
    /\ IF LoopOver(aIdx[r] + 1, aLinks[r])
       THEN /\ aPc' = [aPc EXCEPT ![r] = "queued"]
            /\ aQueue' = Append(aQueue, r)
            /\ aIdx' = [aIdx EXCEPT ![r] = 1]
       ELSE /\ aIdx' = [aIdx EXCEPT ![r] = @ + 1]
            /\ UNCHANGED <<aPc, aQueue>>
    /\ UNCHANGED <<aLinks, sinceSweep, invoked, aBusy, items, mediaMessageTracker,
                   deletion>>

\* The queue starts its head: requestStarted, handleRequest is entered.
StartHead ==
    /\ aBusy = 0
    /\ aQueue # <<>>
    /\ aBusy' = Head(aQueue)
    /\ aQueue' = Tail(aQueue)
    /\ aPc' = [aPc EXCEPT ![Head(aQueue)] = "processing"]
    /\ UNCHANGED <<aLinks, aIdx, activeRequests, entryAge, sinceSweep, registered,
                   unresolved, invoked, items, mediaMessageTracker, deletion>>

\* handleRequest, one iteration: interactWithBot is called for the link and
\* returns; each media item it collected was forwarded to the relay identity
\* by forwardMediaToBotAccount and is on its way there.
LinkProcessed(r) ==
    /\ aBusy = r
    /\ aIdx[r] <= aLinks[r]
    /\ invoked' = invoked \cup {<<r, aIdx[r]>>}
    /\ aIdx' = [aIdx EXCEPT ![r] = @ + 1]
    /\ \E new \in SUBSET {k \in 1..MaxItems : items[k].state = "none"} :
          items' = [k \in 1..MaxItems |->
                       IF k \in new
                       THEN [state |-> "forwarded", bot |-> aIdx[r], req |-> r, chat |-> 0]
                       ELSE items[k]]
    /\ UNCHANGED <<aPc, aLinks, activeRequests, entryAge, sinceSweep, registered,
                   unresolved, aQueue, aBusy, mediaMessageTracker, deletion>>

\* handleRequest returns, markProcessingComplete, requestCompleted listener:
\* with tracked messages for the chat the warning is sent and, unless that
\* send fails, the deletion timer is set.
RequestCompleted(r) ==
    /\ aBusy = r
    /\ aIdx[r] > aLinks[r]
    /\ aBusy' = 0
    /\ aPc' = [aPc EXCEPT ![r] = "completed"]
    /\ IF mediaMessageTracker[r] # {}
       THEN \E sent \in BOOLEAN :
               deletion' = [deletion EXCEPT ![r] = IF sent THEN "armed" ELSE @]
       ELSE UNCHANGED deletion
    /\ UNCHANGED <<aLinks, aIdx, activeRequests, entryAge, sinceSweep, registered,
                   unresolved, invoked, aQueue, items, mediaMessageTracker>>

\* forwardedMediaReceived listener: the relay identity has received a
\* forwarded item, looks up the requester of its responder, sends the item
\* to that chat and tracks the message sent.
ForwardedMediaReceived(k) ==
    /\ items[k].state = "forwarded"
    /\ LET chat == activeRequests[items[k].bot]
       IN  \E sent \in BOOLEAN :
              IF chat # 0 /\ sent
              THEN /\ items' = [items EXCEPT ![k].state = "delivered", ![k].chat = chat]
                   /\ mediaMessageTracker' =
                         [mediaMessageTracker EXCEPT ![chat] = @ \cup {k}]
              ELSE /\ items' = [items EXCEPT ![k].state = "dropped"]
                   /\ UNCHANGED mediaMessageTracker
    /\ UNCHANGED <<aPc, aLinks, aIdx, activeRequests, entryAge, sinceSweep, registered,
                   unresolved, invoked, aQueue, aBusy, deletion>>

\* The deletion timer of a chat fires: every tracked message and the warning
\* are deleted and the chat's tracker entry is dropped.
DeletionFires(c) ==
    /\ deletion[c] = "armed"
    /\ deletion' = [deletion EXCEPT ![c] = "fired"]
    /\ items' = [k \in 1..MaxItems |->
                    IF k \in mediaMessageTracker[c]
                    THEN [items[k] EXCEPT !.state = "deleted"]
                    ELSE items[k]]
    /\ mediaMessageTracker' = [mediaMessageTracker EXCEPT ![c] = {}]
    /\ UNCHANGED <<aPc, aLinks, aIdx, activeRequests, entryAge, sinceSweep, registered,
                   unresolved, invoked, aQueue, aBusy>>

\* ------------------------------------------------- RequestTracker and time
SweptOneIntervalLate(age) == age > maxAge + sweepInterval

\* cleanup: now - request.timestamp > maxAge
Expired(age) == age > maxAge

\* addRequest for a responder, at any moment, on behalf of any requester.
TrackRequest(b) ==
    /\ \E r \in AppReq : activeRequests' = [activeRequests EXCEPT ![b] = r]
    /\ entryAge' = [entryAge EXCEPT ![b] = 0]
    /\ UNCHANGED <<aPc, aLinks, aIdx, sinceSweep, registered, unresolved, invoked,
                   aQueue, aBusy, items, mediaMessageTracker, deletion>>

\* The cleanup interval fires: every expired entry is deleted.
Cleanup ==
    /\ sinceSweep = sweepInterval
    /\ sinceSweep' = 0
    /\ activeRequests' = [b \in 1..MaxAppLinks |->
                             IF activeRequests[b] # 0 /\ Expired(entryAge[b])
                             THEN 0 ELSE activeRequests[b]]
    /\ UNCHANGED <<aPc, aLinks, aIdx, entryAge, registered, unresolved, invoked,
                   aQueue, aBusy, items, mediaMessageTracker, deletion>>

\* Half a sweep interval passes, unless the cleanup is due.  Ages are followed
\* up to two sweep intervals past maxAge.
TimePasses ==
    /\ sinceSweep < sweepInterval
    /\ sinceSweep' = sinceSweep + sweepInterval \div 2
    /\ entryAge' = [b \in 1..MaxAppLinks |->
                       IF activeRequests[b] # 0
                       THEN Min(entryAge[b] + sweepInterval \div 2,
                                maxAge + 2 * sweepInterval)
                       ELSE entryAge[b]]
    /\ UNCHANGED <<aPc, aLinks, aIdx, activeRequests, registered, unresolved, invoked,
                   aQueue, aBusy, items, mediaMessageTracker, deletion>>

\* The tracker's clock as a value: one step of it is the cleanup when the
\* interval has run out and half an interval of time otherwise, as in Cleanup
\* and TimePasses.
ClockStep(c) ==
    IF c.since = sweepInterval
    THEN [c EXCEPT !.since = 0,
                   !.active = [b \in 1..MaxAppLinks |->
                                  IF c.active[b] # 0 /\ Expired(c.age[b])
                                  THEN 0 ELSE c.active[b]]]
    ELSE [c EXCEPT !.since = c.since + sweepInterval \div 2,
                   !.age = [b \in 1..MaxAppLinks |->
                               IF c.active[b] # 0
                               THEN Min(c.age[b] + sweepInterval \div 2,
                                        maxAge + 2 * sweepInterval)
                               ELSE c.age[b]]]

RECURSIVE Elapse(_, _)
Elapse(c, ms) ==
    IF ms = 0 THEN c
    ELSE IF c.since = sweepInterval THEN Elapse(ClockStep(c), ms)
    ELSE Elapse(ClockStep(c), ms - sweepInterval \div 2)

\* A request waits in the queue while the queue serves a request of another
\* chat until that request's deadline: defaultTimeout passes, with the
\* cleanups that fall into it.
ServesAnother ==
    /\ aQueue # <<>>
    /\ aBusy = 0
    /\ LET c == Elapse([active |-> activeRequests, age |-> entryAge,
                        since |-> sinceSweep], defaultTimeout)
       IN  /\ activeRequests' = c.active
           /\ entryAge' = c.age
           /\ sinceSweep' = c.since
    /\ UNCHANGED <<aPc, aLinks, aIdx, registered, unresolved, invoked,
                   aQueue, aBusy, items, mediaMessageTracker, deletion>>

\* requestReceived listener from the event to its end, for a request with
\* one link: ResolveUsername settles, with a user in the result
\* requestTracker.addRequest is called for the requester (request r comes
\* from user r); then requestQueue.addRequest.
ReceiveAndAdd ==
    /\ AddRequest
    /\ \E b \in 0..MaxAppLinks :
          IF b # 0
          THEN /\ activeRequests' = [activeRequests EXCEPT ![b] = nextId + 1]
               /\ entryAge' = [entryAge EXCEPT ![b] = 0]
          ELSE UNCHANGED <<activeRequests, entryAge>>
    /\ UNCHANGED <<aPc, aLinks, aIdx, sinceSweep, registered, unresolved, invoked,
                   aQueue, aBusy, items, mediaMessageTracker, deletion>>

AInit ==
    /\ aPc = [r \in AppReq |-> "none"]
    /\ aLinks = [r \in AppReq |-> 0]
    /\ aIdx = [r \in AppReq |-> 0]
    /\ activeRequests = [b \in 1..MaxAppLinks |-> 0]
    /\ entryAge = [b \in 1..MaxAppLinks |-> 0]
    /\ sinceSweep = 0
    /\ registered = {}
    /\ unresolved = {}
    /\ invoked = {}
    /\ aQueue = <<>>
    /\ aBusy = 0
    /\ items = [k \in 1..MaxItems |-> [state |-> "none", bot |-> 0, req |-> 0, chat |-> 0]]
    /\ mediaMessageTracker = [c \in AppReq |-> {}]
    /\ deletion = [c \in AppReq |-> "none"]

\* ------------------------------------- TelegramBot: links and deep links
\* Strings are sequences of character codes.
Chars(c, n) == [i \in 1..n |-> c]

\* The URLs a message may carry: the same link under both host names, links
\* of several lengths, a foreign host, a link without start token.
Urls ==
    {[host |-> "t.me", name |-> Chars(65, 5), token |-> Chars(120, 1)],
     [host |-> "telegram.me", name |-> Chars(65, 5), token |-> Chars(120, 1)],
     [host |-> "t.me", name |-> Chars(98, 5), token |-> Chars(45, 4)],
     [host |-> "t.me", name |-> Chars(95, 20), token |-> Chars(45, 9)],
     [host |-> "t.me", name |-> Chars(95, 20), token |-> Chars(48, 12)],
     [host |-> "example.com", name |-> Chars(65, 5), token |-> Chars(120, 1)],
     [host |-> "t.me", name |-> Chars(65, 5), token |-> <<>>]}

\* botLinkPattern: https://(t|telegram).me/<name>?start=<token>
Matches(u) == u.host \in {"t.me", "telegram.me"} /\ u.name # <<>> /\ u.token # <<>>

\* parseBotLink
ParseBotLink(u) == [botUsername |-> u.name, startParameter |-> u.token]

\* The links of a sequence of URLs, in order.
LinksOf(urls) ==
    LET RECURSIVE From(_)
        From(i) == IF i > Len(urls) THEN <<>>
                   ELSE IF Matches(urls[i])
                   THEN <<ParseBotLink(urls[i])>> \o From(i + 1)
                   ELSE From(i + 1)
    IN  From(1)

\* extractBotLinks: the links of the entities, then those of the text.
ExtractBotLinks(text, entities) == LinksOf(entities) \o LinksOf(text)

\* JSON.stringify of [{b: ..., s: ...}, ...]
Stringify(links) ==
    LET Obj(l) == <<123, 34, 98, 34, 58, 34>> \o l.botUsername
                  \o <<34, 44, 34, 115, 34, 58, 34>> \o l.startParameter
                  \o <<34, 125>>
        RECURSIVE Objs(_)
        Objs(i) == IF i > Len(links) THEN <<>>
                   ELSE IF i = 1 THEN Obj(links[i]) \o Objs(i + 1)
                   ELSE <<44>> \o Obj(links[i]) \o Objs(i + 1)
    IN  <<91>> \o Objs(1) \o <<93>>

RECURSIVE Base64(_)
\* Buffer.toString('base64'): symbols 0..63, 64 for the padding '='
Base64(b) ==
    IF Len(b) = 0 THEN <<>>
    ELSE IF Len(b) = 1
    THEN <<b[1] \div 4, (b[1] % 4) * 16, 64, 64>>
    ELSE IF Len(b) = 2
    THEN <<b[1] \div 4, (b[1] % 4) * 16 + b[2] \div 16, (b[2] % 16) * 4, 64>>
    ELSE <<b[1] \div 4, (b[1] % 4) * 16 + b[2] \div 16,
           (b[2] % 16) * 4 + b[3] \div 64, b[3] % 64>>
         \o Base64(SubSeq(b, 4, Len(b)))

\* .replace(/\+/g, '-').replace(/\//g, '_').replace(/=/g, ''): symbol 65 is
\* '-', 66 is '_'
UrlSafe(sym) ==
    LET kept == SelectSeq(sym, LAMBDA x : x # 64)
    IN  [i \in 1..Len(kept) |->
            IF kept[i] = 62 THEN 65 ELSE IF kept[i] = 63 THEN 66 ELSE kept[i]]

\* A decoder that reads whole groups of four symbols only.
WholeGroups(sym) == SubSeq(sym, 1, Len(sym) - (Len(sym) % 4))

\* .replace(/-/g, '+').replace(/_/g, '/'), then '=' is appended while the
\* length is no multiple of 4
Padded(sym) ==
    LET missing == (4 - (Len(sym) % 4)) % 4
    IN  [i \in 1..(Len(sym) + missing) |->
            IF i > Len(sym) THEN 64
            ELSE IF sym[i] = 65 THEN 62 ELSE IF sym[i] = 66 THEN 63 ELSE sym[i]]

RECURSIVE Bytes(_)
\* Buffer.from(base64, 'base64')
Bytes(sym) ==
    IF Len(sym) < 4 THEN <<>>
    ELSE (IF sym[3] = 64
          THEN <<sym[1] * 4 + sym[2] \div 16>>
          ELSE IF sym[4] = 64
          THEN <<sym[1] * 4 + sym[2] \div 16, (sym[2] % 16) * 16 + sym[3] \div 4>>
          ELSE <<sym[1] * 4 + sym[2] \div 16, (sym[2] % 16) * 16 + sym[3] \div 4,
                 (sym[3] % 4) * 64 + sym[4]>>)
         \o Bytes(SubSeq(sym, 5, Len(sym)))

LimitOfSixtySix(param) == Len(param) > parameterLimit + 2

\* base64.length > 64
ExceedsLimit(param) == Len(param) > parameterLimit

NoParameter == [ok |-> FALSE, text |-> <<>>]

\* encodeLinksToParameter: the whole list, else the first link alone, else null
EncodeLinksToParameter(links) ==
    LET base64 == UrlSafe(Base64(Stringify(links)))
        singleBase64 == UrlSafe(Base64(Stringify(<<links[1]>>)))
    IN  IF ~ExceedsLimit(base64) THEN [ok |-> TRUE, text |-> base64]
        ELSE IF ExceedsLimit(singleBase64) THEN NoParameter
        ELSE [ok |-> TRUE, text |-> singleBase64]

\* decodeStartParameter: JSON.parse of the decoded text, read as
\* [{"b":"...","s":"..."},...]; each object becomes a link with botUsername
\* b and startParameter s; null when the text is no such JSON text
DecodeStartParameter(param) ==
    LET jsonStr == Bytes(Padded(param))
        n == Len(jsonStr)
        bad == [ok |-> FALSE, links |-> <<>>]
        Has(i, lit) ==
            i + Len(lit) - 1 <= n /\ SubSeq(jsonStr, i, i + Len(lit) - 1) = lit
        Quote(i) ==
            IF \E j \in i..n : jsonStr[j] = 34
            THEN CHOOSE j \in i..n :
                     jsonStr[j] = 34 /\ \A k \in i..(j - 1) : jsonStr[k] # 34
            ELSE 0
        RECURSIVE Objects(_)
        Objects(i) ==
            IF ~Has(i, <<123, 34, 98, 34, 58, 34>>) THEN bad
            ELSE LET q1 == Quote(i + 6)
                 IN  IF q1 = 0 \/ ~Has(q1, <<34, 44, 34, 115, 34, 58, 34>>) THEN bad
                     ELSE LET q2 == Quote(q1 + 7)
                          IN  IF q2 = 0 \/ ~Has(q2, <<34, 125>>) THEN bad
                              ELSE LET link == [botUsername |-> SubSeq(jsonStr, i + 6, q1 - 1),
                                                startParameter |-> SubSeq(jsonStr, q1 + 7, q2 - 1)]
                                       rest == IF q2 + 2 = n /\ Has(n, <<93>>)
                                               THEN [ok |-> TRUE, links |-> <<>>]
                                               ELSE IF Has(q2 + 2, <<44>>)
                                               THEN Objects(q2 + 3)
                                               ELSE bad
                                   IN  IF rest.ok
                                       THEN [ok |-> TRUE, links |-> <<link>> \o rest.links]
                                       ELSE bad
    IN  IF jsonStr = <<91, 93>> THEN [ok |-> TRUE, links |-> <<>>]
        ELSE IF Has(1, <<91>>) THEN Objects(2)
        ELSE bad

\* The messages a chat may hold: the URLs of the entities, the URLs in the
\* text, and whether the chat is private.
InboundMessages ==
    [entities : UNION {[1..n -> Urls] : n \in 0..MaxEntities},
     text : UNION {[1..n -> Urls] : n \in 0..MaxTextUrls},
     private : BOOLEAN]

\* handleMessage for a message: without links nothing is done; in a private
\* chat the request is emitted; in a group chat the links are encoded and
\* the deep link is sent, or the advice to use the private chat.
HandleMessage ==
    /\ lPc = "idle"
    /\ msg' \in InboundMessages
    /\ LET links == ExtractBotLinks(msg'.text, msg'.entities)
       IN  /\ botLinks' = links
           /\ IF links = <<>>
              THEN /\ lPc' = "done"
                   /\ UNCHANGED <<startParam, notice, lRequest>>
              ELSE IF msg'.private
              THEN /\ lPc' = "done"
                   /\ lRequest' = [emitted |-> TRUE, botLinks |-> links]
                   /\ UNCHANGED <<startParam, notice>>
              ELSE LET param == EncodeLinksToParameter(links)
                   IN  /\ startParam' = param
                       /\ notice' = IF param.ok THEN "deepLink" ELSE "usePrivateChat"
                       /\ lPc' = IF param.ok THEN "answered" ELSE "done"
                       /\ UNCHANGED lRequest

\* handleStartCommand in the private chat, with the parameter of the deep
\* link: the request is emitted with the decoded links.
HandleStartCommand ==
    /\ lPc = "answered"
    /\ lPc' = "done"
    /\ LET decoded == DecodeStartParameter(startParam.text)
       IN  lRequest' = IF decoded.ok /\ Len(decoded.links) > 0
                      THEN [emitted |-> TRUE, botLinks |-> decoded.links]
                      ELSE lRequest
    /\ UNCHANGED <<msg, botLinks, startParam, notice>>

\* No message has arrived.
LInit ==
    /\ msg = [entities |-> <<>>, text |-> <<>>, private |-> TRUE]
    /\ lPc = "idle"
    /\ botLinks = <<>>
    /\ startParam = NoParameter
    /\ notice = "none"
    /\ lRequest = [emitted |-> FALSE, botLinks |-> <<>>]

\* ----------------------------------------- the media listener's routing
SenderFirst(chat, sender) ==
    IF sender # 0 THEN "direct" ELSE IF chat # 0 THEN "relay" ELSE "none"

\* if (botChatId) emit('mediaReceived') else if (originalSenderId)
\* forwardMessageToUser
Route(chat, sender) ==
    IF chat # 0 THEN "relay" ELSE IF sender # 0 THEN "direct" ELSE "none"

\* interactWithBot(client, link, originalSenderId, botChatId)
InvokeFor ==
    /\ Invoke
    /\ botChatId' \in {0, 1}
    /\ originalSenderId' \in {0, 1}
    /\ UNCHANGED <<mediaReceived, directForwards>>

\* A message reaches the handlers; the media listener routes the item it
\* counts before it returns.
DeliverAndRoute ==
    /\ Deliver
    /\ LET counted == mediaCount' - mediaCount
           route == Route(botChatId, originalSenderId)
       IN  /\ mediaReceived' = IF route = "relay" THEN mediaReceived + counted
                               ELSE mediaReceived
           /\ directForwards' = IF route = "direct" THEN directForwards + counted
                                ELSE directForwards
    /\ UNCHANGED <<botChatId, originalSenderId>>

RInit ==
    /\ botChatId = 0
    /\ originalSenderId = 0
    /\ mediaReceived = 0
    /\ directForwards = 0

JInit ==
    /\ jpc = "idle"
    /\ jTotal = 0
    /\ jLoop = JoinLoopStart
    /\ jLog = <<>>
    /\ jResult = JoinLoopResult(JoinLoopStart)

Init == QInit /\ CInit /\ JInit /\ EInit /\ FInit /\ SInit /\ XInit /\ AInit /\ LInit /\ RInit
    /\ callbackAnswer = "none"

\* The queue on its own: a handler may signal completion or failure at any
\* moment after requestStarted, or never.
Next ==
    \/ AddRequest /\ UNCHANGED <<cvars, jvars, evars, fvars, ovars>>
    \/ ImmediateProcessNext /\ UNCHANGED <<cvars, jvars, evars, fvars, ovars>>
    \/ Tick /\ UNCHANGED <<cvars, jvars, evars, fvars, ovars>>
    \/ \E r \in Req : DeadlineExpires(r) /\ UNCHANGED <<cvars, jvars, evars, fvars, ovars>>
    \/ \E r \in Req : Settle(r) /\ UNCHANGED <<cvars, jvars, evars, fvars, ovars>>
    \/ \E r \in Req : HandlerReturns(r) /\ UNCHANGED <<cvars, jvars, evars, fvars, ovars>>
    \/ \E r \in Req : HandlerThrows(r) /\ UNCHANGED <<cvars, jvars, evars, fvars, ovars>>

Spec == Init /\ [][Next]_vars

\* The queue driven by the Application's wiring and handleRequest.
CoordNext ==
    \/ RequestReceived /\ UNCHANGED <<jvars, evars, fvars, ovars>>
    \/ ImmediateProcessNext /\ UNCHANGED <<cvars, jvars, evars, fvars, ovars>>
    \/ Tick /\ UNCHANGED <<cvars, jvars, evars, fvars, ovars>>
    \/ \E r \in Req : DeadlineExpires(r) /\ UNCHANGED <<cvars, jvars, evars, fvars, ovars>>
    \/ \E r \in Req : QueueSettles(r) /\ UNCHANGED <<jvars, evars, fvars, ovars>>
    \/ \E r \in Req : HandleRequestEnters(r) /\ UNCHANGED <<qvars, jvars, evars, fvars, ovars>>
    \/ \E r \in Req : LoopHead(r) /\ UNCHANGED <<qvars, jvars, evars, fvars, ovars>>
    \/ \E r \in Req : EngineRuns(r) /\ UNCHANGED <<qvars, jvars, evars, fvars, ovars>>
    \/ \E r \in Req : ListenerRecoveryPass(r) /\ UNCHANGED <<qvars, jvars, evars, fvars, ovars>>
    \/ \E r \in Req : InteractReturns(r) /\ UNCHANGED <<qvars, jvars, evars, fvars, ovars>>
    \/ \E r \in Req : HandleRequestReturns(r) /\ UNCHANGED <<jvars, evars, fvars, ovars>>

SpecCoord == Init /\ [][CoordNext]_vars

\* One run of joinChannelsFromButtons.
JoinNext ==
    \/ JoinBegins /\ UNCHANGED <<qvars, cvars, evars, fvars, ovars>>
    \/ JoinAttempt /\ UNCHANGED <<qvars, cvars, evars, fvars, ovars>>
    \/ JoinReturns /\ UNCHANGED <<qvars, cvars, evars, fvars, ovars>>

SpecJoin == Init /\ [][JoinNext]_vars

\* One invocation of interactWithBot, its listeners and timers.
EngineNext ==
    \/ Invoke /\ UNCHANGED <<qvars, cvars, jvars, fvars, ovars>>
    \/ Resolved /\ UNCHANGED <<qvars, cvars, jvars, fvars, ovars>>
    \/ SendStartCommand /\ UNCHANGED <<qvars, cvars, jvars, fvars, ovars>>
    \/ StartCommandSettles /\ UNCHANGED <<qvars, cvars, jvars, fvars, ovars>>
    \/ ResponseTimeout /\ UNCHANGED <<qvars, cvars, jvars, fvars, ovars>>
    \/ AfterResponse /\ UNCHANGED <<qvars, cvars, jvars, fvars, ovars>>
    \/ GatingJoin /\ UNCHANGED <<qvars, cvars, jvars, fvars, ovars>>
    \/ GatingJoinsEnd /\ UNCHANGED <<qvars, cvars, jvars, fvars, ovars>>
    \/ GatingSettled /\ UNCHANGED <<qvars, cvars, jvars, fvars, ovars>>
    \/ ClickConfirm /\ UNCHANGED <<qvars, cvars, jvars, fvars, ovars>>
    \/ ClickConfirmAgain /\ UNCHANGED <<qvars, cvars, jvars, fvars, ovars>>
    \/ Collected /\ UNCHANGED <<qvars, cvars, jvars, fvars, ovars>>
    \/ CollectedWithoutResponse /\ UNCHANGED <<qvars, cvars, jvars, fvars, ovars>>
    \/ Deliver /\ UNCHANGED <<qvars, cvars, jvars, fvars, ovars>>
    \/ RetryJoin /\ UNCHANGED <<qvars, cvars, jvars, fvars, ovars>>
    \/ RetryJoinsEnd /\ UNCHANGED <<qvars, cvars, jvars, fvars, ovars>>
    \/ RetrySettled /\ UNCHANGED <<qvars, cvars, jvars, fvars, ovars>>
    \/ RetryConfirm /\ UNCHANGED <<qvars, cvars, jvars, fvars, ovars>>
    \/ CheckTimeout /\ UNCHANGED <<qvars, cvars, jvars, fvars, ovars>>
    \/ ClockTick /\ UNCHANGED <<qvars, cvars, jvars, fvars, ovars>>

SpecEngine == Init /\ [][EngineNext]_vars

\* Node runs every ready continuation and every due timer, and time passes;
\* nothing obliges the responder to send a message.
EngineFairness ==
    /\ WF_vars(EngineNext /\ delivered' = delivered)

FairEngine == SpecEngine /\ EngineFairness

\* One activation of handleRequest with the forwards it starts.
ForwardNext ==
    \/ ForwardEnter /\ UNCHANGED <<qvars, cvars, jvars, evars, ovars>>
    \/ ForwardLoopHead /\ UNCHANGED <<qvars, cvars, jvars, evars, ovars>>
    \/ MediaReceived /\ UNCHANGED <<qvars, cvars, jvars, evars, ovars>>
    \/ ForwardFinishes /\ UNCHANGED <<qvars, cvars, jvars, evars, ovars>>
    \/ ForwardInteractReturns /\ UNCHANGED <<qvars, cvars, jvars, evars, ovars>>
    \/ LeftListenerExpires /\ UNCHANGED <<qvars, cvars, jvars, evars, ovars>>
    \/ ForwardAfterLoop /\ UNCHANGED <<qvars, cvars, jvars, evars, ovars>>
    \/ ForwardAwaitAll /\ UNCHANGED <<qvars, cvars, jvars, evars, ovars>>
    \/ ForwardAllSettled /\ UNCHANGED <<qvars, cvars, jvars, evars, ovars>>
    \/ ForwardReturns /\ UNCHANGED <<qvars, cvars, jvars, evars, ovars>>

SpecForward == Init /\ [][ForwardNext]_vars

\* The status message of one activation of handleRequest.
StatusNext ==
    \/ StatusEnter /\ UNCHANGED <<qvars, cvars, jvars, evars, fvars, xvars, avars, lvars, rvars, callbackAnswer>>
    \/ ProgressEvent /\ UNCHANGED <<qvars, cvars, jvars, evars, fvars, xvars, avars, lvars, rvars, callbackAnswer>>
    \/ AwaitedUpdate /\ UNCHANGED <<qvars, cvars, jvars, evars, fvars, xvars, avars, lvars, rvars, callbackAnswer>>
    \/ \E awaited \in BOOLEAN :
          UpdateSettles(awaited) /\ UNCHANGED <<qvars, cvars, jvars, evars, fvars, xvars, avars, lvars, rvars, callbackAnswer>>
    \/ StatusReturns /\ UNCHANGED <<qvars, cvars, jvars, evars, fvars, xvars, avars, lvars, rvars, callbackAnswer>>

SpecStatus == Init /\ [][StatusNext]_vars

\* Scenario 1: one request from the relay identity, one target, a responder
\* that shows two join buttons and a confirm button and then sends three
\* media items.
ScenarioNext ==
    \/ ScenarioStart /\ UNCHANGED <<qvars, cvars, jvars, fvars, svars, avars, lvars, rvars, callbackAnswer>>
    \/ Exchange(Resolved) /\ UNCHANGED <<qvars, cvars, jvars, fvars, svars, avars, lvars, rvars, callbackAnswer>>
    \/ Exchange(SendStartCommand) /\ UNCHANGED <<qvars, cvars, jvars, fvars, svars, avars, lvars, rvars, callbackAnswer>>
    \/ Exchange(StartCommandSettles) /\ UNCHANGED <<qvars, cvars, jvars, fvars, svars, avars, lvars, rvars, callbackAnswer>>
    \/ Exchange(AfterResponse) /\ UNCHANGED <<qvars, cvars, jvars, fvars, svars, avars, lvars, rvars, callbackAnswer>>
    \/ Exchange(GatingJoin) /\ UNCHANGED <<qvars, cvars, jvars, fvars, svars, avars, lvars, rvars, callbackAnswer>>
    \/ Exchange(GatingJoinsEnd) /\ UNCHANGED <<qvars, cvars, jvars, fvars, svars, avars, lvars, rvars, callbackAnswer>>
    \/ Exchange(GatingSettled) /\ UNCHANGED <<qvars, cvars, jvars, fvars, svars, avars, lvars, rvars, callbackAnswer>>
    \/ Exchange(ClickConfirm) /\ UNCHANGED <<qvars, cvars, jvars, fvars, svars, avars, lvars, rvars, callbackAnswer>>
    \/ Exchange(Collected) /\ UNCHANGED <<qvars, cvars, jvars, fvars, svars, avars, lvars, rvars, callbackAnswer>>
    \/ Exchange(RetryJoin) /\ UNCHANGED <<qvars, cvars, jvars, fvars, svars, avars, lvars, rvars, callbackAnswer>>
    \/ Exchange(RetryJoinsEnd) /\ UNCHANGED <<qvars, cvars, jvars, fvars, svars, avars, lvars, rvars, callbackAnswer>>
    \/ Exchange(RetrySettled) /\ UNCHANGED <<qvars, cvars, jvars, fvars, svars, avars, lvars, rvars, callbackAnswer>>
    \/ Exchange(RetryConfirm) /\ UNCHANGED <<qvars, cvars, jvars, fvars, svars, avars, lvars, rvars, callbackAnswer>>
    \/ Exchange(CheckTimeout) /\ UNCHANGED <<qvars, cvars, jvars, fvars, svars, avars, lvars, rvars, callbackAnswer>>
    \/ Responder /\ UNCHANGED <<qvars, cvars, jvars, fvars, svars, avars, lvars, rvars, callbackAnswer>>
    \/ ScenarioTick /\ UNCHANGED <<qvars, cvars, jvars, fvars, svars, avars, lvars, rvars, callbackAnswer>>
    \/ ScenarioEnd /\ UNCHANGED <<qvars, cvars, jvars, fvars, svars, avars, lvars, rvars, callbackAnswer>>

SpecScenario == Init /\ [][ScenarioNext]_vars

\* The Application's listeners around the queue.
AppNext ==
    \/ \E r \in AppReq : Receive(r) /\ UNCHANGED <<qvars, cvars, jvars, evars, fvars, svars, xvars, lvars, rvars, callbackAnswer>>
    \/ \E r \in AppReq : ResolveLink(r) /\ UNCHANGED <<qvars, cvars, jvars, evars, fvars, svars, xvars, lvars, rvars, callbackAnswer>>
    \/ StartHead /\ UNCHANGED <<qvars, cvars, jvars, evars, fvars, svars, xvars, lvars, rvars, callbackAnswer>>
    \/ \E r \in AppReq : LinkProcessed(r) /\ UNCHANGED <<qvars, cvars, jvars, evars, fvars, svars, xvars, lvars, rvars, callbackAnswer>>
    \/ \E r \in AppReq : RequestCompleted(r) /\ UNCHANGED <<qvars, cvars, jvars, evars, fvars, svars, xvars, lvars, rvars, callbackAnswer>>
    \/ \E k \in 1..MaxItems : ForwardedMediaReceived(k) /\ UNCHANGED <<qvars, cvars, jvars, evars, fvars, svars, xvars, lvars, rvars, callbackAnswer>>
    \/ \E c \in AppReq : DeletionFires(c) /\ UNCHANGED <<qvars, cvars, jvars, evars, fvars, svars, xvars, lvars, rvars, callbackAnswer>>

SpecApp == Init /\ [][AppNext]_vars

\* The application against the clock of the tracker's cleanup.
AgingNext ==
    \/ \E r \in AppReq : Receive(r) /\ UNCHANGED <<qvars, cvars, jvars, evars, fvars, svars, xvars, lvars, rvars, callbackAnswer>>
    \/ \E r \in AppReq : ResolveLink(r) /\ UNCHANGED <<qvars, cvars, jvars, evars, fvars, svars, xvars, lvars, rvars, callbackAnswer>>
    \/ StartHead /\ UNCHANGED <<qvars, cvars, jvars, evars, fvars, svars, xvars, lvars, rvars, callbackAnswer>>
    \/ \E r \in AppReq : LinkProcessed(r) /\ UNCHANGED <<qvars, cvars, jvars, evars, fvars, svars, xvars, lvars, rvars, callbackAnswer>>
    \/ \E r \in AppReq : RequestCompleted(r) /\ UNCHANGED <<qvars, cvars, jvars, evars, fvars, svars, xvars, lvars, rvars, callbackAnswer>>
    \/ \E k \in 1..MaxItems : ForwardedMediaReceived(k) /\ UNCHANGED <<qvars, cvars, jvars, evars, fvars, svars, xvars, lvars, rvars, callbackAnswer>>
    \/ \E c \in AppReq : DeletionFires(c) /\ UNCHANGED <<qvars, cvars, jvars, evars, fvars, svars, xvars, lvars, rvars, callbackAnswer>>
    \/ ServesAnother /\ UNCHANGED <<qvars, cvars, jvars, evars, fvars, svars, xvars, lvars, rvars, callbackAnswer>>
    \/ Cleanup /\ UNCHANGED <<qvars, cvars, jvars, evars, fvars, svars, xvars, lvars, rvars, callbackAnswer>>

SpecAging == Init /\ [][AgingNext]_vars

\* The tracker's entries against the clock.
TrackerNext ==
    \/ \E b \in 1..MaxAppLinks : TrackRequest(b) /\ UNCHANGED <<qvars, cvars, jvars, evars, fvars, svars, xvars, lvars, rvars, callbackAnswer>>
    \/ Cleanup /\ UNCHANGED <<qvars, cvars, jvars, evars, fvars, svars, xvars, lvars, rvars, callbackAnswer>>
    \/ TimePasses /\ UNCHANGED <<qvars, cvars, jvars, evars, fvars, svars, xvars, lvars, rvars, callbackAnswer>>

SpecTracker == Init /\ [][TrackerNext]_vars

\* One invocation of interactWithBot for a request of either origin.
RoutingNext ==
    \/ InvokeFor /\ UNCHANGED <<qvars, cvars, jvars, fvars, svars, xvars, avars, lvars, callbackAnswer>>
    \/ Resolved /\ UNCHANGED <<qvars, cvars, jvars, fvars, ovars>>
    \/ SendStartCommand /\ UNCHANGED <<qvars, cvars, jvars, fvars, ovars>>
    \/ StartCommandSettles /\ UNCHANGED <<qvars, cvars, jvars, fvars, ovars>>
    \/ ResponseTimeout /\ UNCHANGED <<qvars, cvars, jvars, fvars, ovars>>
    \/ AfterResponse /\ UNCHANGED <<qvars, cvars, jvars, fvars, ovars>>
    \/ GatingJoin /\ UNCHANGED <<qvars, cvars, jvars, fvars, ovars>>
    \/ GatingJoinsEnd /\ UNCHANGED <<qvars, cvars, jvars, fvars, ovars>>
    \/ GatingSettled /\ UNCHANGED <<qvars, cvars, jvars, fvars, ovars>>
    \/ ClickConfirm /\ UNCHANGED <<qvars, cvars, jvars, fvars, ovars>>
    \/ ClickConfirmAgain /\ UNCHANGED <<qvars, cvars, jvars, fvars, ovars>>
    \/ Collected /\ UNCHANGED <<qvars, cvars, jvars, fvars, ovars>>
    \/ CollectedWithoutResponse /\ UNCHANGED <<qvars, cvars, jvars, fvars, ovars>>
    \/ DeliverAndRoute /\ UNCHANGED <<qvars, cvars, jvars, fvars, svars, xvars, avars, lvars, callbackAnswer>>
    \/ RetryJoin /\ UNCHANGED <<qvars, cvars, jvars, fvars, ovars>>
    \/ RetryJoinsEnd /\ UNCHANGED <<qvars, cvars, jvars, fvars, ovars>>
    \/ RetrySettled /\ UNCHANGED <<qvars, cvars, jvars, fvars, ovars>>
    \/ RetryConfirm /\ UNCHANGED <<qvars, cvars, jvars, fvars, ovars>>
    \/ CheckTimeout /\ UNCHANGED <<qvars, cvars, jvars, fvars, ovars>>
    \/ ClockTick /\ UNCHANGED <<qvars, cvars, jvars, fvars, ovars>>

SpecRouting == Init /\ [][RoutingNext]_vars

\* One invocation of interactWithBot, the answer to its confirm click kept.
ConfirmNext ==
    \/ Invoke /\ UNCHANGED <<qvars, cvars, jvars, fvars, ovars>>
    \/ Resolved /\ UNCHANGED <<qvars, cvars, jvars, fvars, ovars>>
    \/ SendStartCommand /\ UNCHANGED <<qvars, cvars, jvars, fvars, ovars>>
    \/ StartCommandSettles /\ UNCHANGED <<qvars, cvars, jvars, fvars, ovars>>
    \/ ResponseTimeout /\ UNCHANGED <<qvars, cvars, jvars, fvars, ovars>>
    \/ AfterResponse /\ UNCHANGED <<qvars, cvars, jvars, fvars, ovars>>
    \/ GatingJoin /\ UNCHANGED <<qvars, cvars, jvars, fvars, ovars>>
    \/ GatingJoinsEnd /\ UNCHANGED <<qvars, cvars, jvars, fvars, ovars>>
    \/ GatingSettled /\ UNCHANGED <<qvars, cvars, jvars, fvars, ovars>>
    \/ ClickConfirmObserved /\ UNCHANGED <<qvars, cvars, jvars, fvars, svars, xvars, avars, lvars, rvars>>
    \/ ClickConfirmAgain /\ UNCHANGED <<qvars, cvars, jvars, fvars, ovars>>
    \/ Collected /\ UNCHANGED <<qvars, cvars, jvars, fvars, ovars>>
    \/ CollectedWithoutResponse /\ UNCHANGED <<qvars, cvars, jvars, fvars, ovars>>
    \/ Deliver /\ UNCHANGED <<qvars, cvars, jvars, fvars, ovars>>
    \/ RetryJoin /\ UNCHANGED <<qvars, cvars, jvars, fvars, ovars>>
    \/ RetryJoinsEnd /\ UNCHANGED <<qvars, cvars, jvars, fvars, ovars>>
    \/ RetrySettled /\ UNCHANGED <<qvars, cvars, jvars, fvars, ovars>>
    \/ RetryConfirm /\ UNCHANGED <<qvars, cvars, jvars, fvars, ovars>>
    \/ CheckTimeout /\ UNCHANGED <<qvars, cvars, jvars, fvars, ovars>>
    \/ ClockTick /\ UNCHANGED <<qvars, cvars, jvars, fvars, ovars>>

SpecConfirm == Init /\ [][ConfirmNext]_vars

\* The queue fed by the requestReceived listener, with the tracker.
AdmitNext ==
    \/ ReceiveAndAdd /\ UNCHANGED <<cvars, jvars, evars, fvars, svars, xvars, lvars, rvars, callbackAnswer>>
    \/ ImmediateProcessNext /\ UNCHANGED <<cvars, jvars, evars, fvars, ovars>>
    \/ Tick /\ UNCHANGED <<cvars, jvars, evars, fvars, ovars>>
    \/ \E r \in Req : DeadlineExpires(r) /\ UNCHANGED <<cvars, jvars, evars, fvars, ovars>>
    \/ \E r \in Req : Settle(r) /\ UNCHANGED <<cvars, jvars, evars, fvars, ovars>>
    \/ \E r \in Req : HandlerReturns(r) /\ UNCHANGED <<cvars, jvars, evars, fvars, ovars>>
    \/ \E r \in Req : HandlerThrows(r) /\ UNCHANGED <<cvars, jvars, evars, fvars, ovars>>

SpecAdmit == Init /\ [][AdmitNext]_vars

\* One inbound message of the relay identity, and the deep link made of it.
LinksNext ==
    \/ HandleMessage /\ UNCHANGED <<qvars, cvars, jvars, evars, fvars, svars, xvars, avars, rvars, callbackAnswer>>
    \/ HandleStartCommand /\ UNCHANGED <<qvars, cvars, jvars, evars, fvars, svars, xvars, avars, rvars, callbackAnswer>>

SpecLinks == Init /\ [][LinksNext]_vars

\* Node runs every due timer, every promise continuation and every
\* setImmediate callback; nothing obliges a handler to finish or a user to
\* send a request.
Fairness ==
    /\ WF_vars(Tick /\ UNCHANGED <<cvars, jvars, evars, fvars, ovars>>)
    /\ WF_vars(ImmediateProcessNext /\ UNCHANGED <<cvars, jvars, evars, fvars, ovars>>)
    /\ \A r \in Req : WF_vars(DeadlineExpires(r) /\ UNCHANGED <<cvars, jvars, evars, fvars, ovars>>)
    /\ \A r \in Req : WF_vars(Settle(r) /\ UNCHANGED <<cvars, jvars, evars, fvars, ovars>>)

FairSpec == Spec /\ Fairness

\* ---------------------------------------------------------------- claims
Accepted == {acceptLog[i] : i \in 1..Len(acceptLog)}

Started == {startedLog[i] : i \in 1..Len(startedLog)}

Terminal == {"completed", "failed"}

Unsettled == {r \in Accepted : status[r] \in {"queued", "processing"}}

TimedOut(r) == status[r] = "failed" /\ failError[r] = "Request timeout"

\* C1: at most one request has status 'processing' in every reachable state,
\* whatever the interleaving of addRequest, completion and failure signals
\* and deadline expiries.
C1_AtMostOneProcessing ==
    Cardinality({r \in Req : status[r] = "processing"}) <= 1

\* A request settled by its deadline whose handler still runs, the next one
\* processing and another one waiting.
C1_Witness ==
    \E r1, r2 \in Req :
        /\ TimedOut(r1) /\ handler[r1] = "running"
        /\ status[r2] = "processing"
        /\ Len(queue) > 0

\* C2: every accepted request eventually has status 'completed' or 'failed'
\* with exactly one of requestCompleted / requestFailed emitted for it, and
\* never more than one, even if its handler never signals.
C2_EveryAcceptedSettles ==
    /\ [](\A r \in Req : completedCount[r] + failedCount[r] <= 1)
    /\ \A r \in Req :
          (r \in Accepted) ~> (/\ status[r] \in Terminal
                               /\ completedCount[r] + failedCount[r] = 1)

\* A request that waited in the queue and was then settled by the deadline
\* alone: its handler never signalled.
C2_Witness ==
    \E r \in Req :
        /\ r \in Accepted /\ TimedOut(r) /\ handler[r] = "running"
        /\ Len(startedLog) > 1 /\ startedLog[1] # r

\* C3: addRequest on a queue at capacity emits queueFull and returns false,
\* leaves the queue contents and the busy flag unchanged; the rejected request
\* never has status 'processing' and requestStarted is never emitted for it.
C3_RejectedAtCapacity ==
    /\ [][(nextId' # nextId /\ Len(queue) >= maxSize) =>
            /\ nextId' \in rejected'
            /\ acceptLog' = acceptLog
            /\ queue' = queue
            /\ processing' = processing
            /\ startedLog' = startedLog]_vars
    /\ [](\A r \in rejected : status[r] # "processing" /\ r \notin Started)

\* A request was rejected and the queue has since gone on to start every
\* request that was waiting at that moment.
C3_Witness ==
    /\ rejected # {}
    /\ Len(startedLog) > maxSize
    /\ \E r \in rejected : \A a \in Accepted : a < r

\* C4 as claimed: the number of accepted requests that have not settled never
\* exceeds the capacity.
C4_UnsettledWithinCapacity == Cardinality(Unsettled) <= maxSize

\* C4 amended: the capacity bounds the waiting requests only; with the one
\* request in processing at most maxSize + 1 accepted requests are unsettled.
C4_WaitingWithinCapacity ==
    /\ Len(queue) <= maxSize
    /\ Cardinality(Unsettled) <= maxSize + 1

\* maxSize waiting, one processing, and a further request rejected.
C4_Witness ==
    /\ Len(queue) = maxSize
    /\ Cardinality(Unsettled) = maxSize + 1
    /\ rejected # {}

\* C5: a request whose promise is pending never outlives its deadline; with
\* no signal from a handler the promise stops pending only at the deadline,
\* rejected with 'Request timeout'; the request is then settled 'failed' with
\* that error, the settlement clears the busy flag and schedules processNext,
\* and the request at the head of the queue is started.
C5_DeadlineSettles ==
    /\ [](\A r \in Req : wait[r] = "pending" =>
              timerArmed[r] /\ elapsed[r] <= RequestTimeout)
    /\ [][\A r \in Req :
            (wait[r] = "pending" /\ wait'[r] # "pending" /\ handler' = handler) =>
                /\ elapsed[r] = RequestTimeout
                /\ wait'[r] = "rejected"
                /\ rejectReason'[r] = "Request timeout"]_vars
    /\ [][\A r \in Req :
            (status[r] = "processing" /\ status'[r] # "processing") =>
                /\ status'[r] \in Terminal
                /\ ~processing'
                /\ (Len(queue) > 0 => immediates' = immediates + 1)]_vars
    /\ \A r \in Req :
          (wait[r] = "rejected" /\ rejectReason[r] = "Request timeout") ~> TimedOut(r)
    /\ \A r, n \in Req :
          (TimedOut(r) /\ Len(queue) > 0 /\ Head(queue) = n) ~> (n \in Started)

\* A request timed out with its handler still running and a request that
\* waited behind it is now processing.
C5_Witness ==
    \E r, n \in Req :
        /\ TimedOut(r) /\ handler[r] = "running"
        /\ status[n] = "processing"
        /\ n \in Started /\ r < n
        /\ elapsed[r] = RequestTimeout

\* C6: requestStarted is emitted in the order of acceptance: the started
\* requests are always the first Len(startedLog) accepted ones, in order.
C6_StartedInAcceptedOrder ==
    /\ Len(startedLog) <= Len(acceptLog)
    /\ startedLog = SubSeq(acceptLog, 1, Len(startedLog))

\* A request was added between a settlement and the deferred processNext:
\* addRequest itself started the older waiting request, the setImmediate
\* callback is still pending and the newer request waits.
C6_Witness ==
    /\ immediates > 0
    /\ processing
    /\ Len(startedLog) >= 2
    /\ Len(queue) > 0
    /\ queue[Len(queue)] > startedLog[Len(startedLog)]

\* Invocations of interactWithBot started so far for request r.
Invoked(r) == Len(outcomes[r]) + (IF hpc[r] = "interacting" THEN 1 ELSE 0)

RateLimitedOutcome(r) == \E k \in 1..Len(outcomes[r]) : outcomes[r][k].floodWait > 0

\* C7: once a join attempt made for a target of a request has been
\* rate-limited, in the gating pass or in the listener's recovery pass,
\* interactWithBot is invoked for no later target of that request.
C7_NoTargetAfterRateLimit ==
    \A r \in Req : \A k \in rateLimitedJoin[r] : Invoked(r) <= k

\* C8: when a target's outcome is RateLimited the coordinator signals
\* failure, never completion, and the request never has status 'completed'.
C8_RateLimitedRequestFails ==
    \A r \in Req :
        RateLimitedOutcome(r) => (handler[r] # "returned" /\ status[r] # "completed")

\* C9: in a run of joinChannelsFromButtons no join attempt is issued after
\* one that the platform rate-limited, whatever its wait value, and the value
\* returned carries a non-negative floodWait.
C9_RateLimitHaltsJoins ==
    /\ \A i \in 1..Len(jLog) : RateLimited(jLog[i]) => i = Len(jLog)
    /\ jpc = "returned" => jResult.floodWait >= 0

\* C10 as claimed: a request without a RateLimited outcome has all its
\* nLinks outcomes at the moment the queue settles it.
C10_AllOutcomesBeforeSettle ==
    \A r \in Req :
        (status[r] \in Terminal /\ handler[r] = "returned" /\ ~RateLimitedOutcome(r))
            => outcomesAtSettle[r] = nLinks[r]

\* C10 amended: the outcomes are produced one per target in target order, and
\* a request without a RateLimited outcome has all its nLinks outcomes when
\* its own activation of handleRequest returns and signals completion.
C10_AllOutcomesBeforeReturn ==
    \A r \in Req :
        /\ Len(outcomes[r]) <= nLinks[r]
        /\ \A k \in 1..Len(outcomes[r]) : outcomes[r][k].link = k
        /\ (handler[r] = "returned" /\ ~RateLimitedOutcome(r))
              => Len(outcomes[r]) = nLinks[r]

\* A request of two targets, the first of which failed without a rate
\* limit, settled by the deadline before its second outcome, whose
\* activation has since returned with both outcomes.
C10_Witness ==
    \E r \in Req :
        /\ nLinks[r] = 2 /\ Len(outcomes[r]) = 2
        /\ ~outcomes[r][1].success /\ ~RateLimitedOutcome(r)
        /\ handler[r] = "returned"
        /\ TimedOut(r) /\ outcomesAtSettle[r] < 2

\* ------------------------------------------------- claims on the engine

\* Phases in which interactWithBot has sent the trigger and has not yet
\* begun to await the media collection.
BeforeCollecting ==
    {"sending", "awaitingResponse", "joining", "settling", "confirming", "popupWait"}

\* C11: the media handler is registered before the start command is sent,
\* and every message the responder sends while interactWithBot awaits the
\* response, joins or confirms arrives while the media handler is registered.
C11_ListenerBeforeTrigger ==
    /\ [][(triggerSent' /\ ~triggerSent) => mAttached]_vars
    /\ [][(delivered' # delivered /\ epc \in BeforeCollecting) => mAttached]_vars

\* C12: when interactWithBot has returned its outcome, neither handler the
\* invocation registered on the client (the media handler, the handler of
\* waitForResponseMessage) is still registered.
C12_NoHandlerAfterReturn ==
    epc = "returned" => (~mAttached /\ ~rAttached)

\* C13: waitForResponseMessage resolves null only when its 30 s have passed
\* without a message it matches; interactWithBot then returns success if the
\* listener collected a media item and the failure 'Bot response timeout' if
\* it collected none; and an invocation that awaits the response returns.
C13_NoResponseResolves ==
    /\ [][(rResult.state = "pending" /\ rResult'.state = "null") =>
             rElapsed = responseTimeout]_vars
    /\ []((epc = "returned" /\ rResult.state = "null") =>
             /\ mResult = mediaCount
             /\ mResult > 0 => eOutcome = Succeeded
             /\ mResult = 0 => eOutcome = Failed("Bot response timeout"))
    /\ (epc = "awaitingResponse") ~> (epc = "returned")

\* No response within 30 s, yet a media item matched by its peer alone was
\* collected: the outcome returned is a success.
C13_Witness ==
    /\ epc = "returned"
    /\ rResult.state = "null"
    /\ mediaCount > 0
    /\ eOutcome.success

\* C14: in an invocation whose responder sends no inline keyboard, a media
\* collection that gathered an item is finalized no earlier than mediaTimeout
\* and no later than mediaTimeout plus one polling interval after the last
\* item: only media items extend the window.
C14_FinalizesAfterSilence ==
    (mResolved /\ finalGap >= 0 /\ keyboards = 0) =>
        (finalGap >= mediaTimeout /\ finalGap <= mediaTimeout + checkInterval)

\* The responder sends an inline keyboard once more after the gating pass
\* and the confirm click on its initial keyboard, while media is collected.
KeyboardResent ==
    /\ epc = "collecting" /\ rResult.kind = "buttons"
    /\ mAttached
    /\ keyboards = 1
    /\ keyboards' = 2

\* C15: a keyboard re-sent once during the collection starts the listener's
\* join + confirm pass against that message, and whenever that pass ends
\* the media handler is still registered, with a fresh silence window.
C15_ResentKeyboardRetried ==
    /\ [][KeyboardResent => (retryPc' = "joining" /\ retryMsg'.id = delivered')]_vars
    /\ [][(retryPc # "done" /\ retryPc' = "done") => (mAttached /\ sinceLast' = 0)]_vars

\* C16: the listener's join + confirm pass starts at most once in an
\* invocation; a keyboard delivered after it has started changes nothing in
\* that pass, no confirm button is clicked other than that of the initial
\* response and of the message the pass was started by, the pass clicks at
\* most once, and the collection is still finalized with the media counted.
C16_AtMostOneRetryPass ==
    /\ [][(retryPc # "joining" /\ retryPc' = "joining") =>
             (retryPc = "none" /\ ~retryAttempted)]_vars
    /\ [][(keyboards' # keyboards /\ retryAttempted) => UNCHANGED retryVars]_vars
    /\ [](\A i \in 1..MaxMsgs :
             /\ clicks[i] > 0 => i \in {rResult.id, retryMsg.id}
             /\ clicks[i] <= 3
             /\ i # rResult.id => clicks[i] <= 1)
    /\ mAttached ~> (mResolved /\ ~mAttached /\ mResult = mediaCount)

\* Two keyboards were delivered, the pass ran once, against the first, and
\* the invocation has returned.
C16_Witness ==
    /\ keyboards = 2
    /\ retryMsg.id = 1 /\ retryPc = "done"
    /\ clicks[2] = 0
    /\ mResolved /\ epc = "returned"

\* C17: after a popup alert asking to join, interactWithBot waits popupDelay
\* and clicks the confirm button once more, then goes on to collect; and if
\* the responder sends no second keyboard, the confirm button of the initial
\* response is clicked at most twice in the whole invocation.
C17_ConfirmAtMostTwice ==
    /\ [][(epc = "confirming" /\ epc' = "popupWait") => mSleep' = popupDelay]_vars
    /\ [][(epc = "popupWait" /\ epc' # "popupWait") =>
             /\ mSleep = 0
             /\ epc' = "collecting"
             /\ clicks'[rResult.id] = clicks[rResult.id] + 1]_vars
    /\ [](\A i \in 1..MaxMsgs : (keyboards <= 1 /\ rResult.id = i) => clicks[i] <= 2)

\* C18: no fault escapes interactWithBot: it never throws, an unresolvable
\* target yields the failure 'Bot not found', a failed trigger send yields a
\* failure carrying the error, and every outcome returned is a success
\* without error text or a failure with one.
C18_NeverThrows ==
    /\ [](epc # "threw")
    /\ [](epc # "returned" => eOutcome = NoOutcome)
    /\ [](epc = "returned" =>
             /\ eOutcome.success => eOutcome.error = "none"
             /\ ~eOutcome.success => eOutcome.error \notin {"none", "pending"})
    /\ [][(epc = "resolving" /\ epc' = "returned") =>
             eOutcome' = Failed("Bot not found")]_vars
    /\ [][(epc = "sending" /\ epc' \notin {"sending", "awaitingResponse"}) =>
             (epc' = "returned" /\ eOutcome' = Failed("send failed"))]_vars

\* The trigger could not be sent and the failure was returned.
C18_Witness ==
    /\ epc = "returned"
    /\ triggerSent
    /\ eOutcome = Failed("send failed")

\* ---------------------------------------------- claims on the coordinator

\* The targets of request r whose outcome is a failure without a rate limit.
FailedTargets(r) ==
    LET NotRateLimited(k) == ~outcomes[r][k].success /\ outcomes[r][k].floodWait = 0
    IN  SelectSeq([k \in 1..Len(outcomes[r]) |-> k], NotRateLimited)

\* C19: sendErrorMessage is called once for each target that failed without
\* a rate limit and for no other; after such a failure the loop stands at the
\* next target or has already invoked interactWithBot for it, and the loop
\* is left without a rate limit only when every target has its outcome.
C19_FailureContinues ==
    \A r \in Req :
        /\ errorLines[r] = FailedTargets(r)
        /\ \A i \in 1..Len(FailedTargets(r)) :
              LET k == FailedTargets(r)[i]
              IN  k < nLinks[r] =>
                     (Invoked(r) > k \/ (hpc[r] = "loop" /\ linkIdx[r] = k))
        /\ (hpc[r] \in {"finishing", "returned"} /\ ~rateLimitHit[r])
              => Len(outcomes[r]) = nLinks[r]

\* The first of two targets failed without a rate limit, one failure line
\* was sent, and the second target has its outcome as well.
C19_Witness ==
    \E r \in Req :
        /\ nLinks[r] = 2
        /\ errorLines[r] = <<1>>
        /\ Len(outcomes[r]) = 2
        /\ outcomes[r][2].success

\* C20: markProcessingComplete is signalled for a request only when every
\* forward started for it has finished.
C20_CompleteAfterForwards ==
    [][(fSignal # "complete" /\ fSignal' = "complete") => InFlight = {}]_vars
\* C21: at most one status message is ever created in the requester's chat
\* for a request; every later phase change edits it.
C21_OneStatusMessage == sCreated <= 1
\* C22: scenario 1.  When handleRequest is done with the request, three items
\* have been forwarded, the outcome is a success and the status message went
\* through Starting, Joining 1/2, Joining 2/2, Receiving 1, 2, 3, Forwarding 3,
\* Done, in that order and with no other or repeated phase.
C22_ScenarioOne ==
    xPc = "done" =>
        /\ eOutcome.success
        /\ forwarded = 3
        /\ phases = << <<"Starting", 0>>, <<"Joining", 1>>, <<"Joining", 2>>,
                       <<"Receiving", 1>>, <<"Receiving", 2>>, <<"Receiving", 3>>,
                       <<"Forwarding", 3>>, <<"Done", 3>> >>
\* C23: every media message delivered to a requester for a request that has
\* completed is deleted or has its deletion scheduled.
C23_DeliveredIsCleanedUp ==
    \A k \in 1..MaxItems :
        (items[k].state = "delivered" /\ aPc[items[k].req] = "completed")
            => deletion[items[k].chat] = "armed"

\* C24: when the engine is invoked for a target whose responder the
\* Application could resolve, the correlation entry for it has been
\* registered.
C24_RegisteredBeforeInvoked == invoked \subseteq (registered \cup unresolved)

C24_Witness ==
    \E r \in AppReq : <<r, 2>> \in invoked /\ <<r, 2>> \in registered
\* C25: an entry that was inserted and not re-inserted is absent from lookups
\* at every time later than its insertion + maxAge + sweepInterval.
C25_AbsentAfterTtlAndSweep ==
    \A b \in 1..MaxAppLinks :
        activeRequests[b] # 0 => entryAge[b] <= maxAge + sweepInterval

C25_Witness ==
    \E b \in 1..MaxAppLinks : activeRequests[b] = 0 /\ entryAge[b] > maxAge

\* C26: getRequest never returns an entry older than maxAge.
C26_NeverOutlivesTtl ==
    \A b \in 1..MaxAppLinks : activeRequests[b] # 0 => entryAge[b] <= maxAge

\* C27: a list of links whose encoding has at most 64 characters comes back
\* from the deep link as the same ordered list; a longer one whose first
\* link fits comes back as the list of that first link.
C27_RoundTrip ==
    (notice = "deepLink" /\ lPc = "done") =>
        /\ lRequest.emitted
        /\ lRequest.botLinks =
               IF Len(UrlSafe(Base64(Stringify(botLinks)))) <= parameterLimit
               THEN botLinks
               ELSE <<botLinks[1]>>

C27_Witness ==
    /\ notice = "deepLink" /\ lPc = "done"
    /\ Len(botLinks) = 2
    /\ lRequest.botLinks = botLinks

\* C28: the parameter never has more than 64 characters: it is the whole
\* encoding when that fits, the encoding of the first link when only that
\* fits, and none when the first link does not fit, and then the group chat
\* gets no deep link but the advice to use the private chat.
C28_WithinLimit ==
    (lPc # "idle" /\ ~msg.private /\ botLinks # <<>>) =>
        LET whole == UrlSafe(Base64(Stringify(botLinks)))
            first == UrlSafe(Base64(Stringify(<<botLinks[1]>>)))
        IN  /\ startParam.ok => Len(startParam.text) <= parameterLimit
            /\ Len(whole) <= parameterLimit =>
                   startParam = [ok |-> TRUE, text |-> whole]
            /\ (Len(whole) > parameterLimit /\ Len(first) <= parameterLimit) =>
                   startParam = [ok |-> TRUE, text |-> first]
            /\ Len(first) > parameterLimit => ~startParam.ok
            /\ startParam.ok <=> notice = "deepLink"
            /\ ~startParam.ok <=> notice = "usePrivateChat"

C28_Witness ==
    /\ lPc = "done" /\ ~msg.private /\ botLinks # <<>>
    /\ ~startParam.ok
    /\ notice = "usePrivateChat"

\* C29: no request emitted for a message holds two links with the same
\* botUsername and startParameter.
C29_NoDuplicateTargets ==
    lRequest.emitted =>
        \A i, j \in 1..Len(lRequest.botLinks) :
            lRequest.botLinks[i] = lRequest.botLinks[j] => i = j

C31_OneInvocationInFlight ==
    Cardinality({r \in Req : hpc[r] = "interacting"}) <= 1

\* C32: once a request is settled its deadline timer is cleared and neither
\* its onComplete nor its onFailed is registered on the queue any more.
C32_LosersCancelled ==
    \A r \in Req :
        wait[r] = "settled" =>
            /\ ~timerArmed[r]
            /\ r \notin completeListeners
            /\ r \notin failedListeners

\* C35: a request whose handler is still running is not settled by a
\* completion or failure signal: it is neither completed nor failed with
\* the error of a handler.
C35_SettledByOwnSignal ==
    \A r \in Req :
        handler[r] = "running" =>
            /\ status[r] # "completed"
            /\ ~(status[r] = "failed" /\ failError[r] = "handler error")

\* C33: no join is attempted for the target less than 3 s after the join
\* before it: neither pass issues a join while the sleep that follows a join
\* of the other pass is still running.
C33_JoinsThreeSecondsApart ==
    [][/\ retryLoop'.attempts > retryLoop.attempts =>
              ~(epc = "joining" /\ mLoop.attempts > 0 /\ mSleep > 0)
       /\ mLoop'.attempts > mLoop.attempts =>
              ~(retryPc = "joining" /\ retryLoop.attempts > 0 /\ retrySleep > 0)]_vars

\* C34: when the confirm click of interactWithBot is answered with
\* BOT_RESPONSE_TIMEOUT, interactWithBot goes on to the media collection
\* without a second click of its own and returns success.
C34_NoAckIsSwallowed ==
    callbackAnswer = "noAck" =>
        /\ epc \in {"collecting", "returned"}
        /\ epc = "returned" => eOutcome.success

C34_Witness ==
    /\ callbackAnswer = "noAck"
    /\ epc = "returned"
    /\ eOutcome.success

\* C39: while the gating pass of interactWithBot (join loop, delays, settle
\* delay, confirm click) or the listener's own pass is running, the media
\* listener is attached and the collection is not finalized.
C39_ListenerOutlastsGating ==
    (\/ epc \in {"joining", "settling", "confirming", "popupWait"}
     \/ retryPc \in {"joining", "settling", "confirming"}) =>
        mAttached /\ ~mResolved

\* C40: when the only keyboard the responder has sent is the response the
\* gating pass handles, the media listener has not taken it for a re-sent
\* keyboard: it has started no pass of its own and its single recovery pass
\* is still available.
C40_FirstKeyboardHandledOnce ==
    (keyboards = 1 /\ rResult.state = "message" /\ rResult.kind = "buttons") =>
        /\ ~retryAttempted
        /\ retryPc = "none"
        /\ clicks[rResult.id] <= 2

\* C36: while a request is being processed, the tracker entry of every
\* responder registered for it names its requester, and what has been
\* delivered of its media went to its requester.
C36_EntryOfProcessingRequest ==
    /\ \A b \in 1..MaxAppLinks :
           (aBusy # 0 /\ <<aBusy, b>> \in registered) => activeRequests[b] = aBusy
    /\ \A k \in 1..MaxItems :
           (items[k].state = "delivered" /\ aPc[items[k].req] = "processing") =>
               items[k].chat = items[k].req

\* C37: the step that rejects a request with queueFull leaves every tracker
\* entry as it was.
C37_RejectionLeavesTracker ==
    [][rejected' # rejected => activeRequests' = activeRequests]_vars

\* C38: an item that the relay identity is about to receive from a responder,
\* for a link the listener registered and while its request is processing,
\* finds an entry for that responder in the tracker.
C38_EntryOutlivesWait ==
    \A k \in 1..MaxItems :
        (/\ items[k].state = "forwarded"
         /\ aPc[items[k].req] = "processing"
         /\ <<items[k].req, items[k].bot>> \in registered)
        => activeRequests[items[k].bot] # 0
====
